---- MODULE Spec2Model ----
(***************************************************************************)
(* Model of the allocators (src/src/mem/mod.rs) and of the scene graph     *)
(* (src/src/scene.rs, src/src/math/xform.rs) of the qd rendering core.     *)
(***************************************************************************)
EXTENDS Bags, FiniteSets, Integers, Sequences, TLC

VARIABLES
    min_order,      \* MetaAllocator.min_order
    max_order,      \* MetaAllocator.max_order
    free_lists,     \* MetaAllocator.free_lists: order -> queue of offsets
    outstanding,    \* history: bag of ranges returned by alloc and not yet freed
    words,          \* BitMap.words: each u64 as the set of its 1 bit positions
    bm_free_list,   \* BitMap.free_list
    bm_size,        \* history: the size passed to BitMap::new
    bm_alloc,       \* history: indices returned by set_any and not since unset
    bm_freed,       \* history: indices unset and not yet returned again, oldest first
    bm_op,          \* history: the last BitMap call
    bm_ret,         \* history: what the last set_any returned (an index or NoneVal)
    bm_calls,       \* history: set_any calls so far, NoneVal once unset has been called
    hs_items,       \* Handles.items
    hs_free_list,   \* Handles.free_list
    hs_live,        \* history: handles returned by Handles::track and not since untracked
    hp_items,       \* HandlePool.items
    hp_free_list,   \* HandlePool.free_list
    hp_live,        \* history: handles returned by HandlePool::track and not since untracked
    h_last,         \* history: the last call on either table and the handle it concerned
    nodes,          \* Scene.nodes; nodes[i + 1] of the model is nodes[i] of the code
    active_nodes,   \* Scene.active_nodes
    nodeq,          \* Scene.nodeq: queue of [id, xform]
    sc_pc,          \* where update() is: "idle", "pop", "loop", or "done" (returned, pool untouched since)
    sc_cur,         \* the (id, xform) of update's inner loop
    sc_written,     \* history: the nodes whose world this update() has written
    sc_edit,        \* history: the node whose local was changed right after a finished update()
    sc_edits,       \* history: how many times the caller changed a node in place
    vbo,            \* Gl.vbo.inner: RawBuf [alloc, items, free_list]
    ibo,            \* Gl.ibo.inner: RawBuf [alloc, items, free_list]
    dev,            \* the bytes of the device buffer named by ibo.hnd; 0 is a byte never written
    rb_map,         \* the RawMap open on ibo: [hnd, range], NoMap when none
    rb_live,        \* history: handles returned by ibo's alloc and not since freed
    tbo,            \* Gl.tbo.alloc: [words, free_list]
    sbo,            \* Gl.sbo.alloc: [words, free_list]
    meshes,         \* Gl.meshes: sequence of [vhnd, ihnd]
    mesh_idxs,      \* history: the index count each mesh was allocated with
    mesh_batches,   \* Gl.mesh_batches: sequence of [hnd, store, insts]
    gl_fatal,       \* fatal! was reached: the process has ended
    gl_last,        \* history: the last call on the buffers, [op, hnd, len]
    ps_pc,          \* "none": no Pass exists; "open": a Pass exists; "dropped": the last Pass was dropped
    ps_input,       \* history: the drawables given to Pass::draw in this pass, in order
    ps_draws,       \* history: the instanced draws issued when the pass was dropped
    ps_passes,      \* history: how many passes were begun
    ps_sets,        \* history: the mesh handles drawn in each pass dropped so far, oldest first
    lg_free,        \* the ready-to-fill channel (btx, brx): how many cleared buffers it holds
    lg_ready,       \* the ready-to-print channel (tx, rx): the messages it holds, oldest first
    lg_thr,         \* per logging thread: where it is in Log::log and the record it logs
    lg_logger,      \* the logger thread: where it is in its loop and the message it holds
    lg_running,     \* RUNNING
    lg_hnd,         \* AsyncLogger.hnd: whether the mutex is held and whether the handle is Some
    lg_out,         \* stderr: the lines printed, oldest first
    lg_exit,        \* "alive", or how the process ended
    lg_next         \* history: how many records were passed to Log::log

buddyVars == <<min_order, max_order, free_lists, outstanding>>

bitmapVars == <<words, bm_free_list, bm_size, bm_alloc, bm_freed, bm_op, bm_ret, bm_calls>>

sceneVars == <<nodes, active_nodes, nodeq, sc_pc, sc_cur, sc_written, sc_edit, sc_edits>>

handleVars == <<hs_items, hs_free_list, hs_live, hp_items, hp_free_list, hp_live, h_last>>

bufVars == <<vbo, ibo, dev, rb_map, rb_live, tbo, sbo, meshes, mesh_idxs, gl_fatal, gl_last>>

passVars == <<mesh_batches, ps_pc, ps_input, ps_draws, ps_passes, ps_sets>>

logVars == <<lg_free, lg_ready, lg_thr, lg_logger, lg_running, lg_hnd, lg_out, lg_exit, lg_next>>

vars == <<min_order, max_order, free_lists, outstanding,
          words, bm_free_list, bm_size, bm_alloc, bm_freed, bm_op, bm_ret, bm_calls,
          hs_items, hs_free_list, hs_live, hp_items, hp_free_list, hp_live, h_last,
          nodes, active_nodes, nodeq, sc_pc, sc_cur, sc_written, sc_edit, sc_edits,
          vbo, ibo, dev, rb_map, rb_live, tbo, sbo, meshes, mesh_idxs, gl_fatal, gl_last,
          mesh_batches, ps_pc, ps_input, ps_draws, ps_passes, ps_sets,
          lg_free, lg_ready, lg_thr, lg_logger, lg_running, lg_hnd, lg_out, lg_exit, lg_next>>

----------------------------------------------------------------------------
(* Bounds *)

MaxArena == 4       \* largest size passed to MetaAllocator::new
MaxMinSize == 4     \* largest min_size passed to MetaAllocator::new
MaxReq == 3         \* largest size passed to MetaAllocator::alloc
MaxFree == 2        \* unset is not called while BitMap.free_list holds this many indices
MaxItems == 2       \* track does not grow Handles.items or HandlePool.items beyond this length
MaxNodes == 3       \* add_node does not grow Scene.nodes beyond this length
MaxEdits == 1       \* the caller changes nodes in place (local, deactivation) at most this often
MaxFrees == 2       \* RawBuf::free is not called while the handle free list holds this many handles
MaxDraw == 3        \* a pass is given at most this many drawables
MaxPasses == 2      \* at most this many passes are begun
OrderNodes == 4     \* the nodes of the pools update() is run on alone
QUEUE_SIZE == 2     \* the buffers log::init sends into the ready-to-fill channel (32 in log.rs)
MaxLogs == 3        \* Log::log is called at most this often after log::init

----------------------------------------------------------------------------
(* Option::None for an index or offset *)
NoneVal == -1

(* Option::None for a MetaAlloc *)
NoRange == [start |-> NoneVal, end |-> NoneVal]

Max(a, b) == IF a >= b THEN a ELSE b

Min(a, b) == IF a <= b THEN a ELSE b

RECURSIVE Pow2(_)
Pow2(n) == IF n = 0 THEN 1 ELSE 2 * Pow2(n - 1)

(* usize::next_power_of_two: the smallest power of two >= n (1 for n = 0) *)
RECURSIVE NextPow2From(_, _)
NextPow2From(n, p) == IF p >= n THEN p ELSE NextPow2From(n, 2 * p)

NextPowerOfTwo(n) == NextPow2From(n, 1)

(* usize::trailing_zeros, for n > 0 *)
RECURSIVE TrailingZeros(_)
TrailingZeros(n) == IF n % 2 = 1 THEN 0 ELSE 1 + TrailingZeros(n \div 2)

(* the ^ operator on usize *)
RECURSIVE Xor(_, _)
Xor(a, b) ==
    IF a = 0 /\ b = 0 THEN 0
    ELSE (((a % 2) + (b % 2)) % 2) + (2 * Xor(a \div 2, b \div 2))

(* VecDeque::remove(pos), pos counted from 1 *)
RemoveAt(s, pos) == [i \in 1..(Len(s) - 1) |-> IF i < pos THEN s[i] ELSE s[i + 1]]

(* Iterator::position: the first index holding x, 0 when absent *)
Position(s, x) ==
    IF \E i \in 1..Len(s) : s[i] = x
    THEN CHOOSE i \in 1..Len(s) : s[i] = x /\ \A j \in 1..(i - 1) : s[j] # x
    ELSE 0

----------------------------------------------------------------------------
(* MetaAllocator *)

(* MetaAllocator::new: the orders and the free lists, free_lists[max_order] = [0] *)
MetaNew(size, min_size) ==
    LET mo == TrailingZeros(NextPowerOfTwo(size))
    IN  [min_order |-> TrailingZeros(NextPowerOfTwo(min_size)),
         max_order |-> mo,
         free_lists |-> [k \in 0..mo |-> IF k = mo THEN <<0>> ELSE <<>>]]

(* mutant of OrderOf: the size is rounded down to a power of two *)
OrderOfFloor(size, mino) ==
    LET m == Max(size, mino)
        p == NextPowerOfTwo(m)
    IN  IF p = m \/ p = 1 THEN TrailingZeros(p) ELSE TrailingZeros(p) - 1

(* the order computation shared by alloc and free *)
OrderOf(size, mino) == TrailingZeros(NextPowerOfTwo(Max(size, mino)))

(* mutant of SplitBuddy: the upper half is given the offset of the lower half *)
SplitBuddySameOffset(offset, split_order) == offset

(* the buddy pushed when a block at offset is split at split_order *)
SplitBuddy(offset, split_order) == offset + Pow2(split_order)

(* the inner loop of alloc: one buddy onto each list of order..cur_order-1 *)
SplitPush(fl, offset, order, cur_order) ==
    [k \in DOMAIN fl |->
        IF order <= k /\ k < cur_order
        THEN Append(fl[k], SplitBuddy(offset, k))
        ELSE fl[k]]

(* the outer loop of alloc, for cur_order in order..=max_order; it has no *)
(* break: every non-empty list of order >= order is popped and split      *)
RECURSIVE AllocScan(_, _, _, _, _)
AllocScan(fl, found_offset, order, cur_order, maxo) ==
    IF cur_order > maxo
    THEN [free_lists |-> fl, found_offset |-> found_offset]
    ELSE IF fl[cur_order] = <<>>
         THEN AllocScan(fl, found_offset, order, cur_order + 1, maxo)
         ELSE LET offset == Head(fl[cur_order])
                  popped == [fl EXCEPT ![cur_order] = Tail(@)]
              IN  AllocScan(SplitPush(popped, offset, order, cur_order),
                            offset, order, cur_order + 1, maxo)

(* MetaAllocator::alloc: the new free lists and the returned range *)
MetaAlloc(fl, size, mino, maxo) ==
    LET order == OrderOf(size, mino)
    IN  IF order > maxo
        THEN [free_lists |-> fl, ret |-> NoRange]
        ELSE LET r == AllocScan(fl, NoneVal, order, order, maxo)
             IN  [free_lists |-> r.free_lists,
                  ret |-> IF r.found_offset # NoneVal
                          THEN [start |-> r.found_offset,
                                end |-> r.found_offset + Pow2(order)]
                          ELSE NoRange]

(* mutant of FreeBuddy: no block is the buddy, free never merges *)
FreeBuddyNone(cur_offset, cur_order) == NoneVal

(* the buddy of a block in free *)
FreeBuddy(cur_offset, cur_order) == Xor(cur_offset, Pow2(cur_order))

(* the while loop of free followed by the final push_back *)
RECURSIVE FreeLoop(_, _, _, _)
FreeLoop(fl, cur_offset, cur_order, maxo) ==
    IF cur_order < maxo
    THEN LET buddy == FreeBuddy(cur_offset, cur_order)
             pos == Position(fl[cur_order], buddy)
         IN  IF pos # 0
             THEN FreeLoop([fl EXCEPT ![cur_order] = RemoveAt(@, pos)],
                           Min(cur_offset, buddy), cur_order + 1, maxo)
             ELSE [fl EXCEPT ![cur_order] = Append(@, cur_offset)]
    ELSE [fl EXCEPT ![cur_order] = Append(@, cur_offset)]

(* MetaAllocator::free of the block with range start..end *)
MetaFree(fl, range, mino, maxo) ==
    FreeLoop(fl, range.start, OrderOf(range.end - range.start, mino), maxo)

InitBuddyVars ==
    /\ \E size \in 1..MaxArena, min_size \in 1..MaxMinSize :
          LET m == MetaNew(size, min_size)
          IN  /\ min_order = m.min_order
              /\ max_order = m.max_order
              /\ free_lists = m.free_lists
    /\ outstanding = EmptyBag

Alloc ==
    \E size \in 0..MaxReq :
        LET r == MetaAlloc(free_lists, size, min_order, max_order)
        IN  /\ free_lists' = r.free_lists
            /\ outstanding' = IF r.ret # NoRange
                              THEN outstanding (+) SetToBag({r.ret})
                              ELSE outstanding
            /\ UNCHANGED <<min_order, max_order>>
            /\ UNCHANGED <<bitmapVars, handleVars, sceneVars, bufVars, passVars, logVars>>

Free ==
    \E range \in BagToSet(outstanding) :
        /\ free_lists' = MetaFree(free_lists, range, min_order, max_order)
        /\ outstanding' = outstanding (-) SetToBag({range})
        /\ UNCHANGED <<min_order, max_order>>
        /\ UNCHANGED <<bitmapVars, handleVars, sceneVars, bufVars, passVars, logVars>>

----------------------------------------------------------------------------
(* Properties of the buddy allocator *)

Ranges == BagToSet(outstanding)

Disjoint(r1, r2) == r1.end <= r2.start \/ r2.end <= r1.start

(* the blocks of the free lists, as ranges with their order *)
FreeBlocks ==
    {[start |-> free_lists[k][i], end |-> free_lists[k][i] + Pow2(k), order |-> k, pos |-> i] :
        <<k, i>> \in {<<k, i>> \in (0..max_order) \X (1..Pow2(max_order)) :
                          i <= Len(free_lists[k])}}

(* how many tracked ranges (free blocks and outstanding allocations) cover byte b *)
CoverCount(b) ==
    Cardinality({f \in FreeBlocks : f.start <= b /\ b < f.end})
  + BagCardinality([r \in {r \in Ranges : r.start <= b /\ b < r.end} |-> outstanding[r]])

(* C1: with free applied only to outstanding blocks, no two outstanding     *)
(* ranges returned by alloc overlap (each range is outstanding once, and    *)
(* any two different outstanding ranges are disjoint).                      *)
C1_NoOverlap ==
    \A r1 \in Ranges :
        /\ CopiesIn(r1, outstanding) = 1
        /\ r1.start < r1.end
        /\ \A r2 \in Ranges : r1 # r2 => Disjoint(r1, r2)

(* three blocks are outstanding at once, next to a block that was freed or split off *)
C1_Witness ==
    /\ Cardinality(Ranges) >= 3
    /\ \E k \in 0..max_order : free_lists[k] # <<>>

(* C2: once every outstanding block has been freed, the free lists hold     *)
(* exactly one block, offset 0 in the max_order list.                        *)
C2_FullCoalescing ==
    outstanding = EmptyBag =>
        free_lists = [k \in 0..max_order |-> IF k = max_order THEN <<0>> ELSE <<>>]

(* C3: the free-list blocks and the outstanding ranges tile                  *)
(* [0, 2^max_order): every byte is covered exactly once.                     *)
C3_Tiling ==
    /\ \A b \in 0..(Pow2(max_order) - 1) : CoverCount(b) = 1
    /\ \A f \in FreeBlocks : f.end <= Pow2(max_order)
    /\ \A r \in Ranges : r.end <= Pow2(max_order)

(* n is a power of two *)
IsPow2(n) == \E k \in 0..n : n = Pow2(k)

(* len is the smallest power of two that is >= s and >= 2^min_order *)
RoundedLen(len, s) ==
    /\ IsPow2(len)
    /\ len >= s
    /\ len >= Pow2(min_order)
    /\ \A k \in 0..len : (Pow2(k) >= s /\ Pow2(k) >= Pow2(min_order)) => Pow2(k) >= len

(* C20: in an arena that holds a minimum block, a successful alloc(s), for a  *)
(* size s whose power of two fits the arena, returns a range whose length is the smallest power of two that is   *)
(* >= s and >= 2^min_order                                                    *)
C20_AllocRounding ==
    [][\A s \in 1..MaxReq :
          LET a == MetaAlloc(free_lists, s, min_order, max_order)
          IN  (/\ min_order <= max_order
               /\ NextPowerOfTwo(s) <= Pow2(max_order)
               /\ a.ret # NoRange
               /\ free_lists' = a.free_lists
               /\ outstanding' = outstanding (+) SetToBag({a.ret}))
                  => RoundedLen(a.ret.end - a.ret.start, s)]_vars

(* C21: in an arena that holds a minimum block, a successful alloc(0) returns  *)
(* a block of exactly the minimum order: its length is 2^min_order            *)
C21_AllocZero ==
    [][LET a == MetaAlloc(free_lists, 0, min_order, max_order)
       IN  (/\ min_order <= max_order
            /\ a.ret # NoRange
            /\ free_lists' = a.free_lists
            /\ outstanding' = outstanding (+) SetToBag({a.ret}))
               => a.ret.end - a.ret.start = Pow2(min_order)]_vars

(* C23: no free list of order k < max_order holds both a block and its buddy  *)
(* (the block at its offset XOR 2^k)                                          *)
C23_NoBuddyPair ==
    \A k \in 0..(max_order - 1) :
        \A i, j \in 1..Len(free_lists[k]) :
            free_lists[k][j] # Xor(free_lists[k][i], Pow2(k))

(* free has put back the lower half of a pair whose upper half is still       *)
(* outstanding, and a block is in the list above it                           *)
C23_Witness ==
    \E k \in 0..(max_order - 1) :
        /\ \E i \in 1..Len(free_lists[k]) :
              /\ free_lists[k][i] % Pow2(k + 1) = 0
              /\ \E r \in Ranges : r.start = free_lists[k][i] + Pow2(k)
        /\ outstanding # EmptyBag

(* C24: alloc(s) with s > 2^max_order returns None and leaves every free list *)
(* unchanged                                                                  *)
C24_OverSize ==
    \A s \in 0..MaxReq :
        s > Pow2(max_order) =>
            MetaAlloc(free_lists, s, min_order, max_order)
                = [free_lists |-> free_lists, ret |-> NoRange]

(* a request above the arena size meets an allocator with a free block and   *)
(* an outstanding one                                                         *)
C24_Witness ==
    /\ MaxReq > Pow2(max_order)
    /\ max_order >= 1
    /\ outstanding # EmptyBag
    /\ \E k \in 0..max_order : free_lists[k] # <<>>
    /\ MetaAlloc(free_lists, MaxReq, min_order, max_order).ret = NoRange

----------------------------------------------------------------------------
(* BitMap *)

(* BitMap::BITS = u64::BITS *)
BITS == 64

(* u64::MAX: every bit set *)
WordMax == 0..(BITS - 1)

(* mutant of TrailingOnes: the highest clear bit *)
TrailingOnesTop(word) ==
    CHOOSE b \in 0..(BITS - 1) : b \notin word /\ \A c \in (b + 1)..(BITS - 1) : c \in word

(* u64::trailing_ones, for a word that is not u64::MAX *)
TrailingOnes(word) ==
    CHOOSE b \in 0..(BITS - 1) : b \notin word /\ \A c \in 0..(b - 1) : c \in word

(* word | (1 << bit_idx) *)
SetBit(word, bit_idx) == word \cup {bit_idx}

(* mutant of ClearBit: the bit is left set *)
ClearBitKeeps(word, bit_idx) == word

(* word & !(1 << bit_idx) *)
ClearBit(word, bit_idx) == word \ {bit_idx}

(* mutant of PopIndex: the oldest entry is taken instead of the newest *)
PopOldest(fl) == [idx |-> Head(fl), rest |-> Tail(fl)]

(* Vec::pop on a non-empty free list: the last entry *)
PopIndex(fl) == [idx |-> fl[Len(fl)], rest |-> SubSeq(fl, 1, Len(fl) - 1)]

(* BitMap::new *)
BitMapNew(size) ==
    [words |-> [w \in 1..((size + (BITS - 1)) \div BITS) |-> {}],
     free_list |-> <<>>]

(* the scan of set_any: the first word that is not u64::MAX, 0 when there is none; *)
(* words[w] of the model is words[w - 1] of the code                                *)
FirstOpenWord(ws) ==
    IF \E w \in 1..Len(ws) : ws[w] # WordMax
    THEN CHOOSE w \in 1..Len(ws) : ws[w] # WordMax /\ \A v \in 1..(w - 1) : ws[v] = WordMax
    ELSE 0

(* BitMap::set_any: the new words and free list, and the returned index *)
BitMapSetAny(ws, fl) ==
    IF fl # <<>>
    THEN LET p == PopIndex(fl)
             word_idx == p.idx \div BITS
             bit_idx == p.idx % BITS
         IN  [words |-> [ws EXCEPT ![word_idx + 1] = SetBit(@, bit_idx)],
              free_list |-> p.rest,
              ret |-> p.idx]
    ELSE LET w == FirstOpenWord(ws)
         IN  IF w = 0
             THEN [words |-> ws, free_list |-> fl, ret |-> NoneVal]
             ELSE LET bit_idx == TrailingOnes(ws[w])
                  IN  [words |-> [ws EXCEPT ![w] = SetBit(@, bit_idx)],
                       free_list |-> fl,
                       ret |-> ((w - 1) * BITS) + bit_idx]

(* BitMap::unset *)
BitMapUnset(ws, fl, idx) ==
    LET word_idx == idx \div BITS
        bit_idx == idx % BITS
    IN  [words |-> [ws EXCEPT ![word_idx + 1] = ClearBit(@, bit_idx)],
         free_list |-> Append(fl, idx)]

(* the sizes BitMap::new is called with: below, at and above one word *)
BitMapSizes == {0, 1, BITS, BITS + 1}

(* the indices unset is called with: the ends of the first word, the start of the second *)
UnsetIndices == {0, 1, BITS - 1, BITS}

InitBitMapVars ==
    /\ \E size \in BitMapSizes :
          LET b == BitMapNew(size)
          IN  /\ words = b.words
              /\ bm_free_list = b.free_list
              /\ bm_size = size
    /\ bm_alloc = {}
    /\ bm_freed = <<>>
    /\ bm_op = "new"
    /\ bm_ret = NoneVal
    /\ bm_calls = 0

(* a set_any call; once the map is full and nothing was unset, further calls *)
(* change nothing and are not counted                                         *)
SetAny ==
    /\ bm_calls # NoneVal => bm_calls <= Len(words) * BITS
    /\ LET r == BitMapSetAny(words, bm_free_list)
       IN  /\ words' = r.words
           /\ bm_free_list' = r.free_list
           /\ bm_ret' = r.ret
           /\ bm_alloc' = IF r.ret # NoneVal THEN bm_alloc \cup {r.ret} ELSE bm_alloc
           /\ bm_freed' = SelectSeq(bm_freed, LAMBDA i : i # r.ret)
    /\ bm_op' = "set_any"
    /\ bm_calls' = IF bm_calls # NoneVal THEN bm_calls + 1 ELSE bm_calls
    /\ UNCHANGED bm_size
    /\ UNCHANGED <<buddyVars, handleVars, sceneVars, bufVars, passVars, logVars>>

(* an unset call on a currently allocated index *)
Unset ==
    /\ Len(bm_free_list) < MaxFree
    /\ \E idx \in bm_alloc \cap UnsetIndices :
          LET r == BitMapUnset(words, bm_free_list, idx)
          IN  /\ words' = r.words
              /\ bm_free_list' = r.free_list
              /\ bm_alloc' = bm_alloc \ {idx}
              /\ bm_freed' = Append(bm_freed, idx)
    /\ bm_op' = "unset"
    /\ bm_ret' = NoneVal
    /\ bm_calls' = NoneVal
    /\ UNCHANGED bm_size
    /\ UNCHANGED <<buddyVars, handleVars, sceneVars, bufVars, passVars, logVars>>

----------------------------------------------------------------------------
(* Properties of the bitmap allocator *)

(* bit i of the word vector *)
BitIsSet(i) == (i \div BITS) + 1 <= Len(words) /\ (i % BITS) \in words[(i \div BITS) + 1]

(* C4: from BitMap::new(N) with no unset, set_any returns Some on each of   *)
(* the first N calls and None on call N + 1.                                 *)
C4_ExactlyN ==
    (bm_calls # NoneVal /\ bm_calls >= 1) =>
        /\ bm_calls <= bm_size => bm_ret # NoneVal
        /\ bm_calls = bm_size + 1 => bm_ret = NoneVal

(* C5: bit i of the word vector is 1 iff slot i is currently allocated.      *)
C5_BitIffAllocated ==
    \A i \in 0..(Len(words) * BITS) : BitIsSet(i) <=> i \in bm_alloc

(* a slot of the second word was unset and slots of both words are allocated *)
C5_Witness ==
    /\ bm_op = "unset"
    /\ \E k \in 1..Len(bm_freed) : bm_freed[k] = BITS
    /\ \E i \in bm_alloc : i < BITS
    /\ \E i \in bm_alloc : i > BITS

(* C6: when some slot has been unset and not yet returned again, the next    *)
(* set_any returns the most recently unset of those slots.                   *)
C6_Reuse ==
    [][(bm_op' = "set_any" /\ bm_freed # <<>>) => bm_ret' = bm_freed[Len(bm_freed)]]_vars

(* set_any has just handed out again the newer of two unset slots, the older *)
(* one is still waiting                                                       *)
C6_Witness ==
    /\ bm_op = "set_any"
    /\ bm_ret # NoneVal
    /\ bm_freed # <<>>

(* bit i of a word vector *)
BitOf(ws, i) == (i \div BITS) + 1 <= Len(ws) /\ (i % BITS) \in ws[(i \div BITS) + 1]

(* the indices of a word vector *)
BitIndices(ws) == 0..(Len(ws) * BITS - 1)

(* C26: with an empty free-index stack a set_any that returns an index        *)
(* returns the lowest index whose bit is clear and sets exactly that bit;     *)
(* with a non-empty stack it pops the top index, sets its bit and returns it, *)
(* whatever lower bits are clear                                              *)
C26_ScanOrder ==
    [][bm_op' = "set_any" =>
          /\ (bm_free_list = <<>> /\ bm_ret' # NoneVal) =>
                /\ bm_ret' \in BitIndices(words)
                /\ ~BitOf(words, bm_ret')
                /\ \A i \in 0..(bm_ret' - 1) : BitOf(words, i)
                /\ bm_free_list' = <<>>
          /\ bm_free_list # <<>> =>
                /\ bm_ret' = bm_free_list[Len(bm_free_list)]
                /\ bm_free_list' = SubSeq(bm_free_list, 1, Len(bm_free_list) - 1)
          /\ bm_ret' # NoneVal =>
                \A i \in BitIndices(words) :
                    BitOf(words', i) <=> (BitOf(words, i) \/ i = bm_ret')]_vars

(* the scan has passed the full first word and returned the first index of    *)
(* the second                                                                 *)
C26_Witness ==
    /\ bm_op = "set_any"
    /\ bm_calls = BITS + 1
    /\ bm_ret = BITS
    /\ bm_free_list = <<>>

----------------------------------------------------------------------------
(* Handles and HandlePool; items[i] of the model is items[i - 1] of the code, *)
(* handles are the code's indices                                              *)

(* the items tracked *)
ItemValues == {1, 2}

(* T::default() *)
DefaultItem == 0

(* the init closures given to HandlePool::track: store a value, or leave the slot as it is *)
InitFns ==
    {[kind |-> "store", value |-> v] : v \in ItemValues}
        \cup {[kind |-> "keep", value |-> DefaultItem]}

ApplyInit(init, item) == IF init.kind = "keep" THEN item ELSE init.value

(* mutant of FreeSlot: the slot above the popped one is handed out *)
FreeSlotOffByOne(fl, items) ==
    IF fl[Len(fl)] + 1 < Len(items) THEN fl[Len(fl)] + 1 ELSE 0

(* the index a non-empty free list yields: Vec::pop *)
FreeSlot(fl, items) == fl[Len(fl)]

(* Handles::track: the new table and the returned index *)
HandlesTrack(items, fl, item) ==
    IF fl # <<>>
    THEN LET idx == FreeSlot(fl, items)
         IN  [items |-> [items EXCEPT ![idx + 1] = item],
              free_list |-> SubSeq(fl, 1, Len(fl) - 1),
              idx |-> idx]
    ELSE [items |-> Append(items, item), free_list |-> fl, idx |-> Len(items)]

(* Handles::untrack *)
HandlesUntrack(fl, idx) == Append(fl, idx)

(* HandlePool::find_free *)
FindFree(items, fl) ==
    IF fl # <<>>
    THEN [items |-> items,
          free_list |-> SubSeq(fl, 1, Len(fl) - 1),
          idx |-> FreeSlot(fl, items)]
    ELSE [items |-> Append(items, DefaultItem), free_list |-> fl, idx |-> Len(items)]

(* HandlePool::track *)
PoolTrack(items, fl, init) ==
    LET f == FindFree(items, fl)
    IN  [items |-> [f.items EXCEPT ![f.idx + 1] = ApplyInit(init, @)],
         free_list |-> f.free_list,
         idx |-> f.idx]

(* HandlePool::untrack *)
PoolUntrack(fl, idx) == Append(fl, idx)

(* Handles::new and HandlePool::new *)
InitHandleVars ==
    /\ hs_items = <<>>
    /\ hs_free_list = <<>>
    /\ hs_live = {}
    /\ hp_items = <<>>
    /\ hp_free_list = <<>>
    /\ hp_live = {}
    /\ h_last = [table |-> "none", op |-> "new", idx |-> NoneVal]

Track ==
    /\ hs_free_list = <<>> => Len(hs_items) < MaxItems
    /\ \E item \in ItemValues :
          LET r == HandlesTrack(hs_items, hs_free_list, item)
          IN  /\ hs_items' = r.items
              /\ hs_free_list' = r.free_list
              /\ hs_live' = hs_live \cup {r.idx}
              /\ h_last' = [table |-> "Handles", op |-> "track", idx |-> r.idx]
    /\ UNCHANGED <<hp_items, hp_free_list, hp_live>>
    /\ UNCHANGED <<buddyVars, bitmapVars, sceneVars, bufVars, passVars, logVars>>

(* untrack of a live handle *)
Untrack ==
    /\ \E idx \in hs_live :
          /\ hs_free_list' = HandlesUntrack(hs_free_list, idx)
          /\ hs_live' = hs_live \ {idx}
          /\ h_last' = [table |-> "Handles", op |-> "untrack", idx |-> idx]
    /\ UNCHANGED <<hs_items, hp_items, hp_free_list, hp_live>>
    /\ UNCHANGED <<buddyVars, bitmapVars, sceneVars, bufVars, passVars, logVars>>

TrackPool ==
    /\ hp_free_list = <<>> => Len(hp_items) < MaxItems
    /\ \E init \in InitFns :
          LET r == PoolTrack(hp_items, hp_free_list, init)
          IN  /\ hp_items' = r.items
              /\ hp_free_list' = r.free_list
              /\ hp_live' = hp_live \cup {r.idx}
              /\ h_last' = [table |-> "HandlePool", op |-> "track", idx |-> r.idx]
    /\ UNCHANGED <<hs_items, hs_free_list, hs_live>>
    /\ UNCHANGED <<buddyVars, bitmapVars, sceneVars, bufVars, passVars, logVars>>

(* untrack of a live handle *)
UntrackPool ==
    /\ \E idx \in hp_live :
          /\ hp_free_list' = PoolUntrack(hp_free_list, idx)
          /\ hp_live' = hp_live \ {idx}
          /\ h_last' = [table |-> "HandlePool", op |-> "untrack", idx |-> idx]
    /\ UNCHANGED <<hp_items, hs_items, hs_free_list, hs_live>>
    /\ UNCHANGED <<buddyVars, bitmapVars, sceneVars, bufVars, passVars, logVars>>

----------------------------------------------------------------------------
(* Properties of the handle tables *)

(* C7: with untrack applied only to live handles, track never returns a      *)
(* handle that is live, and the item of a live handle is unchanged by track   *)
(* and untrack of other handles (it stays as it is while the handle is live). *)
C7_StableHandles ==
    [][ handleVars' # handleVars =>
          /\ (h_last'.op = "track" /\ h_last'.table = "Handles") => h_last'.idx \notin hs_live
          /\ (h_last'.op = "track" /\ h_last'.table = "HandlePool") => h_last'.idx \notin hp_live
          /\ \A h \in hs_live \cap hs_live' : hs_items'[h + 1] = hs_items[h + 1]
          /\ \A h \in hp_live \cap hp_live' : hp_items'[h + 1] = hp_items[h + 1]
      ]_vars

(* both tables have just-reused slots: a track filled an untracked slot while *)
(* another handle of the same table stayed live                                *)
C7_Witness ==
    /\ h_last.op = "track"
    /\ h_last.table = "HandlePool"
    /\ h_last.idx = 0
    /\ hp_live = {0, 1}
    /\ hp_free_list = <<>>
    /\ hs_live = {0, 1}
    /\ hs_free_list = <<>>
    /\ hs_items[1] # hs_items[2]
    /\ hp_items[1] # hp_items[2]

----------------------------------------------------------------------------
(* Vectors, quaternions and transforms. Components are integers: the f32     *)
(* operations of the code are exact on the small integers used here, and      *)
(* every rotation used has length 1.                                          *)

V3Add(a, b) == <<a[1] + b[1], a[2] + b[2], a[3] + b[3]>>

V3Mul(a, b) == <<a[1] * b[1], a[2] * b[2], a[3] * b[3]>>

V3Scale(a, k) == <<a[1] * k, a[2] * k, a[3] * k>>

V3Neg(a) == <<0 - a[1], 0 - a[2], 0 - a[3]>>

Cross(a, b) ==
    <<(a[2] * b[3]) - (a[3] * b[2]),
      (a[3] * b[1]) - (a[1] * b[3]),
      (a[1] * b[2]) - (a[2] * b[1])>>

V4Dot(a, b) == (a[1] * b[1]) + (a[2] * b[2]) + (a[3] * b[3]) + (a[4] * b[4])

(* f32::sqrt, on a perfect square *)
Sqrt(n) == CHOOSE r \in 0..n : r * r = n

(* V4::length *)
V4Length(a) == Sqrt(V4Dot(a, a))

(* V4::normalized, Quat::normalized *)
V4Normalized(a) ==
    LET len == V4Length(a)
    IN  <<a[1] \div len, a[2] \div len, a[3] \div len, a[4] \div len>>

(* Quat * V3 *)
QuatRotate(q, rhs) ==
    LET n == V4Normalized(q)
        v3 == <<n[1], n[2], n[3]>>
        w == n[4]
        conj == V3Neg(v3)
        t == V3Scale(Cross(conj, rhs), 2)
    IN  V3Add(V3Add(rhs, V3Scale(t, w)), Cross(conj, t))

(* Quat * Quat *)
QuatMul(a, b) ==
    <<(a[4] * b[1]) + (a[1] * b[4]) + (a[2] * b[3]) - (a[3] * b[2]),
      (a[4] * b[2]) - (a[1] * b[3]) + (a[2] * b[4]) + (a[3] * b[1]),
      (a[4] * b[3]) + (a[1] * b[2]) - (a[2] * b[1]) + (a[3] * b[4]),
      (a[4] * b[4]) - (a[1] * b[1]) - (a[2] * b[2]) - (a[3] * b[3])>>

(* Quat::IDENTITY *)
QuatIdentity == <<0, 0, 0, 1>>

(* Xform3::IDENTITY *)
IDENTITY == [pos |-> <<0, 0, 0>>, scale |-> <<1, 1, 1>>, rot |-> QuatIdentity]

(* Concat::concat for Xform3 *)
Concat(lhs, rhs) ==
    [pos |-> V3Add(lhs.pos, QuatRotate(lhs.rot, V3Mul(lhs.scale, rhs.pos))),
     scale |-> V3Mul(lhs.scale, rhs.scale),
     rot |-> QuatMul(lhs.rot, rhs.rot)]

----------------------------------------------------------------------------
(* Scene *)

(* Node::INACTIVE = u32::MAX, the bit pattern 0xFFFFFFFF, written as the 32-bit -1 *)
INACTIVE == -1

(* Node::NONE *)
NONE == 0

(* Drawable::None and Drawable::Mesh { hnd, .. } *)
DrawNone == [kind |-> "None", hnd |-> NoneVal, tex |-> NoneVal]

DrawMeshTex(hnd, tex) == [kind |-> "Mesh", hnd |-> hnd, tex |-> tex]

(* a Mesh drawable with the first texture *)
DrawMesh(hnd) == DrawMeshTex(hnd, 0)

(* mutant of IsActive: a node without child counts as inactive too *)
IsActiveWithKid(node) == node.kid # INACTIVE /\ node.kid # NONE

(* Node::is_active *)
IsActive(node) == node.kid # INACTIVE

(* the slots (indices of the code) of a pool *)
Slots(ns) == 0..(Len(ns) - 1)

(* the local transform a node is added with: the unit translation along x, y *)
(* or z, by slot                                                              *)
BuildXform(slot) ==
    [pos |-> <<IF slot % 3 = 0 THEN 1 ELSE 0,
               IF slot % 3 = 1 THEN 1 ELSE 0,
               IF slot % 3 = 2 THEN 1 ELSE 0>>,
     scale |-> <<1, 1, 1>>, rot |-> QuatIdentity]

(* the drawable a node is added with: none for the root in slot 0, a mesh for *)
(* every other slot                                                           *)
BuildDraw(slot) == IF slot = 0 THEN DrawNone ELSE DrawMesh(0)

(* the local transforms the caller gives to the node of a slot later: the one *)
(* it was added with, or a half turn about z with a stretch along x           *)
LocalXforms(slot) ==
    {BuildXform(slot),
     [pos |-> <<1, 0, 0>>, scale |-> <<2, 1, 1>>, rot |-> <<0, 0, 1, 0>>]}

(* the slot add_node writes: the first inactive one, else the end of the pool *)
AddSlot(ns) ==
    IF \E i \in Slots(ns) : ~IsActive(ns[i + 1])
    THEN CHOOSE i \in Slots(ns) :
            ~IsActive(ns[i + 1]) /\ \A j \in 0..(i - 1) : IsActive(ns[j + 1])
    ELSE Len(ns)

(* the links stored in a pool: [from, to], sib links of every node and kid    *)
(* links of active nodes                                                      *)
Links(ns) ==
    {[from |-> i, to |-> ns[i + 1].sib] : i \in {j \in Slots(ns) : ns[j + 1].sib # NONE}}
        \cup {[from |-> i, to |-> ns[i + 1].kid] :
                 i \in {j \in Slots(ns) : IsActive(ns[j + 1]) /\ ns[j + 1].kid # NONE}}

(* what callers of add_node keep true: a link names a later slot, and no slot *)
(* is named by two links                                                      *)
LinksOk(ns) ==
    /\ \A l \in Links(ns) : l.to \in 1..(MaxNodes - 1) /\ l.to > l.from
    /\ \A l1, l2 \in Links(ns) : l1.to = l2.to => l1 = l2
    /\ \A i \in Slots(ns) : ns[i + 1].sib = NONE \/ ns[i + 1].sib # ns[i + 1].kid

(* the slots update() comes to from slot 0: it follows the sib and kid links  *)
(* of active nodes only                                                       *)
RECURSIVE ReachFrom(_, _)
ReachFrom(ns, S) ==
    LET T == S \cup {l.to : l \in {m \in Links(ns) :
                                      /\ m.from \in S
                                      /\ IsActive(ns[m.from + 1])
                                      /\ m.to \in Slots(ns)}}
    IN  IF T = S THEN S ELSE ReachFrom(ns, T)

Reachable(ns) == IF ns = <<>> THEN {} ELSE ReachFrom(ns, {0})

(* every link update() would follow names a slot of the pool *)
LinksInRange(ns) ==
    \A l \in Links(ns) :
        (l.from \in Reachable(ns) /\ IsActive(ns[l.from + 1])) => l.to \in Slots(ns)

(* the parent of a reachable slot n: the node whose kid link starts n's       *)
(* sibling chain, NoneVal in the root chain                                   *)
RECURSIVE ParentOf(_, _)
ParentOf(ns, n) ==
    IF \E l \in Links(ns) : l.to = n
    THEN LET l == CHOOSE l \in Links(ns) : l.to = n
         IN  IF ns[l.from + 1].kid = n THEN l.from ELSE ParentOf(ns, l.from)
    ELSE NoneVal

(* the slots of a pool in the order of nodes.iter() *)
PoolOrder(ns) == [i \in 1..Len(ns) |-> i - 1]

(* mutant of QueryAll: the nodes are not filtered *)
QueryAllUnfiltered(ns) == PoolOrder(ns)

(* Query::all: scene.nodes.iter().filter(|n| n.is_active()), as slots *)
QueryAll(ns) == SelectSeq(PoolOrder(ns), LAMBDA i : IsActive(ns[i + 1]))

(* Scene::drawables: the nodes of the query whose drawable is not None *)
Drawables(ns) == SelectSeq(QueryAll(ns), LAMBDA i : ns[i + 1].draw # DrawNone)

(* mutant of SceneAddNode: the node is always appended *)
SceneAddNodeAppend(ns, node) == Append(ns, node)

(* Scene::add_node: the first inactive slot is overwritten, else the node is appended *)
SceneAddNode(ns, node) ==
    IF AddSlot(ns) < Len(ns)
    THEN [ns EXCEPT ![AddSlot(ns) + 1] = node]
    ELSE Append(ns, node)

(* mutant of VisitWorld: the operands of concat are exchanged *)
VisitWorldSwapped(xform, node) == Concat(node.local, xform)

(* mutant of VisitWorld: a world that is already set is kept *)
VisitWorldCached(xform, node) ==
    IF node.world # IDENTITY THEN node.world ELSE Concat(xform, node.local)

(* the world update() computes for a node *)
VisitWorld(xform, node) == Concat(xform, node.local)

(* mutant of PushedXform: the child chain is queued with the world the node had before *)
PushedXformStale(old_world, world) == old_world

(* the transform update() queues with a node's kid *)
PushedXform(old_world, world) == world

(* mutant of VisitNode: the local transform is overwritten too *)
VisitNodeLocal(node, world) == [node EXCEPT !.world = world, !.local = world]

(* node.world = world *)
VisitNode(node, world) == [node EXCEPT !.world = world]

(* mutant of PushBack: the entry is put at the front of the queue *)
PushFront(q, x) == <<x>> \o q

(* VecDeque::push_back *)
PushBack(q, x) == Append(q, x)

(* Scene::new *)
InitSceneVars ==
    /\ nodes = <<>>
    /\ active_nodes = <<>>
    /\ nodeq = <<>>
    /\ sc_pc = "idle"
    /\ sc_cur = [id |-> 0, xform |-> IDENTITY]
    /\ sc_written = {}
    /\ sc_edit = NoneVal
    /\ sc_edits = 0

(* update() is not running *)
SceneIdle == sc_pc \in {"idle", "done"}

(* add_node between frames, with a node as the callers build it (world       *)
(* identity), into slot 0 or a slot that a node already links to              *)
AddNode ==
    /\ SceneIdle
    /\ \E sib \in 0..(MaxNodes - 1), kid \in 0..(MaxNodes - 1) :
          LET node == [sib |-> sib, kid |-> kid,
                       draw |-> BuildDraw(AddSlot(nodes)),
                       local |-> BuildXform(AddSlot(nodes)), world |-> IDENTITY]
              ns == SceneAddNode(nodes, node)
          IN  /\ Len(ns) <= MaxNodes
              /\ LinksOk(ns)
              /\ AddSlot(nodes) = 0 \/ \E l \in Links(nodes) : l.to = AddSlot(nodes)
              /\ nodes' = ns
    /\ sc_pc' = "idle"
    /\ sc_edit' = NoneVal
    /\ UNCHANGED <<active_nodes, nodeq, sc_cur, sc_written, sc_edits>>
    /\ UNCHANGED <<buddyVars, bitmapVars, handleVars, bufVars, passVars, logVars>>

(* the caller deactivates a node: kid = INACTIVE *)
Deactivate ==
    /\ SceneIdle
    /\ sc_edits < MaxEdits
    /\ sc_edits' = sc_edits + 1
    /\ \E i \in Slots(nodes) :
          /\ IsActive(nodes[i + 1])
          /\ nodes' = [nodes EXCEPT ![i + 1].kid = INACTIVE]
    /\ sc_pc' = "idle"
    /\ sc_edit' = NoneVal
    /\ UNCHANGED <<active_nodes, nodeq, sc_cur, sc_written>>
    /\ UNCHANGED <<buddyVars, bitmapVars, handleVars, bufVars, passVars, logVars>>

(* the caller changes the local transform of an active node between frames *)
SetLocal ==
    /\ SceneIdle
    /\ sc_edits < MaxEdits
    /\ sc_edits' = sc_edits + 1
    /\ \E i \in Slots(nodes) : \E local \in LocalXforms(i) :
          /\ IsActive(nodes[i + 1])
          /\ local # nodes[i + 1].local
          /\ nodes' = [nodes EXCEPT ![i + 1].local = local]
          /\ sc_edit' = IF sc_pc = "done" THEN i ELSE NoneVal
    /\ sc_pc' = "idle"
    /\ UNCHANGED <<active_nodes, nodeq, sc_cur, sc_written>>
    /\ UNCHANGED <<buddyVars, bitmapVars, handleVars, bufVars, passVars, logVars>>

(* update() is called: the root is queued when the pool is not empty *)
UpdateBegin ==
    /\ SceneIdle
    /\ LinksInRange(nodes)
    /\ IF nodes # <<>>
       THEN /\ active_nodes' = <<>>
            /\ nodeq' = PushBack(nodeq, [id |-> 0, xform |-> IDENTITY])
       ELSE UNCHANGED <<active_nodes, nodeq>>
    /\ sc_pc' = "pop"
    /\ sc_written' = {}
    /\ UNCHANGED <<nodes, sc_cur, sc_edit, sc_edits>>
    /\ UNCHANGED <<buddyVars, bitmapVars, handleVars, bufVars, passVars, logVars>>

(* while let Some((id, xform)) = nodeq.pop_front(); update() returns when the queue is empty *)
UpdatePop ==
    /\ sc_pc = "pop"
    /\ IF nodeq = <<>>
       THEN /\ sc_pc' = "done"
            /\ sc_written' = {}
            /\ UNCHANGED <<nodeq, sc_cur>>
       ELSE /\ sc_cur' = Head(nodeq)
            /\ nodeq' = Tail(nodeq)
            /\ sc_pc' = "loop"
            /\ UNCHANGED sc_written
    /\ UNCHANGED <<nodes, active_nodes, sc_edit, sc_edits>>
    /\ UNCHANGED <<buddyVars, bitmapVars, handleVars, bufVars, passVars, logVars>>

(* one pass of the inner loop; on an inactive node `continue` repeats the    *)
(* pass with nothing changed                                                  *)
UpdateVisit ==
    /\ sc_pc = "loop"
    /\ LET id == sc_cur.id
           node == nodes[id + 1]
           world == VisitWorld(sc_cur.xform, node)
       IN  IF ~IsActive(node)
           THEN UNCHANGED sceneVars
           ELSE /\ nodes' = [nodes EXCEPT ![id + 1] = VisitNode(@, world)]
                /\ nodeq' = IF node.kid # NONE
                            THEN PushBack(nodeq, [id |-> node.kid,
                                                  xform |-> PushedXform(node.world, world)])
                            ELSE nodeq
                /\ active_nodes' = Append(active_nodes, id)
                /\ sc_written' = sc_written \cup {id}
                /\ IF node.sib = NONE
                   THEN sc_pc' = "pop" /\ sc_cur' = [id |-> 0, xform |-> IDENTITY]
                   ELSE sc_pc' = "loop" /\ sc_cur' = [sc_cur EXCEPT !.id = node.sib]
                /\ UNCHANGED <<sc_edit, sc_edits>>
    /\ UNCHANGED <<buddyVars, bitmapVars, handleVars, bufVars, passVars, logVars>>

----------------------------------------------------------------------------
(* Properties of Scene::update *)

(* the world of slot n's parent as stored in the pool, identity in the root chain *)
ParentWorld(ns, n) ==
    IF ParentOf(ns, n) = NoneVal THEN IDENTITY ELSE ns[ParentOf(ns, n) + 1].world

(* slot n and its ancestors *)
RECURSIVE Lineage(_, _)
Lineage(ns, n) ==
    IF ParentOf(ns, n) = NoneVal THEN {n} ELSE {n} \cup Lineage(ns, ParentOf(ns, n))

(* the sum of the local positions of a set of slots *)
RECURSIVE SumPos(_, _)
SumPos(ns, S) ==
    IF S = {} THEN <<0, 0, 0>>
    ELSE LET n == CHOOSE n \in S : TRUE
         IN  V3Add(ns[n + 1].local.pos, SumPos(ns, S \ {n}))

(* no node of S rotates or scales *)
PureTranslations(ns, S) ==
    \A n \in S : ns[n + 1].local.rot = QuatIdentity /\ ns[n + 1].local.scale = <<1, 1, 1>>

(* the world of slot n computed from the local transforms alone *)
RECURSIVE WorldOf(_, _)
WorldOf(ns, n) ==
    Concat(IF ParentOf(ns, n) = NoneVal THEN IDENTITY ELSE WorldOf(ns, ParentOf(ns, n)),
           ns[n + 1].local)

(* C8: when update() has returned, the world of every node reachable from   *)
(* slot 0 is concat(parent's world, its local), with identity for the parent  *)
(* in the root chain; where the node and its ancestors only translate, its    *)
(* world position is the sum of their local positions.                        *)
C8_WorldFromParent ==
    sc_pc = "done" =>
        \A n \in Reachable(nodes) :
            /\ nodes[n + 1].world = Concat(ParentWorld(nodes, n), nodes[n + 1].local)
            /\ PureTranslations(nodes, Lineage(nodes, n)) =>
                  nodes[n + 1].world.pos = SumPos(nodes, Lineage(nodes, n))

(* the chain A, B, C with translations (1,0,0), (0,1,0), (0,0,1): C is at (1,1,1) *)
C8_Witness ==
    /\ sc_pc = "done"
    /\ Len(nodes) = 3
    /\ nodes[1].kid = 1 /\ nodes[2].kid = 2 /\ nodes[3].kid = NONE
    /\ nodes[1].local.pos = <<1, 0, 0>>
    /\ nodes[2].local.pos = <<0, 1, 0>>
    /\ nodes[3].local.pos = <<0, 0, 1>>
    /\ PureTranslations(nodes, {0, 1, 2})
    /\ nodes[3].world.pos = <<1, 1, 1>>

(* C9: when update() has returned, the world of every reachable node is what  *)
(* the current links and local transforms give, whatever worlds earlier       *)
(* updates left (also after only an ancestor's local was changed).            *)
C9_FreshWorld ==
    sc_pc = "done" =>
        \A n \in Reachable(nodes) : nodes[n + 1].world = WorldOf(nodes, n)

(* update() has returned a second time, after only the local of a node with a *)
(* grandchild was changed                                                     *)
C9_Witness ==
    /\ sc_pc = "done"
    /\ sc_edit # NoneVal
    /\ \E n \in Reachable(nodes) :
          /\ sc_edit \in Lineage(nodes, n)
          /\ sc_edit # n
          /\ sc_edit # ParentOf(nodes, n)
          /\ nodes[sc_edit + 1].local # BuildXform(sc_edit)

(* C10: within one update(), a node outside the root chain has its world      *)
(* written after its parent's world was written in this update, and from that *)
(* value.                                                                     *)
C10_ParentFirst ==
    [][\A n \in sc_written' \ sc_written :
          ParentOf(nodes, n) # NoneVal =>
              /\ ParentOf(nodes, n) \in sc_written
              /\ sc_cur.xform = nodes[ParentOf(nodes, n) + 1].world
              /\ nodes'[n + 1].world = Concat(nodes[ParentOf(nodes, n) + 1].world,
                                              nodes[n + 1].local)
      ]_vars

(* update() is running and has written the world of a grandchild of a root-chain node *)
C10_Witness ==
    /\ sc_pc \in {"pop", "loop"}
    /\ \E n \in sc_written :
          /\ ParentOf(nodes, n) # NoneVal
          /\ ParentOf(nodes, ParentOf(nodes, n)) # NoneVal

----------------------------------------------------------------------------
(* Properties of Scene::add_node *)

(* a step of add_node: the pool changes between frames and the caller made no *)
(* change in place                                                            *)
AddNodeStep == SceneIdle /\ nodes' # nodes /\ sc_edits' = sc_edits

(* the inactive slots of a pool *)
InactiveSlots(ns) == {i \in Slots(ns) : ns[i + 1].kid = INACTIVE}

ChangedSlots(ns, ms) ==
    {i \in 1..Max(Len(ns), Len(ms)) : i > Len(ns) \/ i > Len(ms) \/ ns[i] # ms[i]}

(* C34: add_node changes at most one slot, which held an inactive node        *)
(* (kid = INACTIVE) before the call or is appended by it; every active node,  *)
(* a leaf with kid = NONE included, is left as it is                          *)
C34_AddNodeFrame ==
    [][AddNodeStep =>
          /\ Len(nodes') >= Len(nodes)
          /\ Cardinality(ChangedSlots(nodes, nodes')) <= 1
          /\ \A i \in ChangedSlots(nodes, nodes') :
                i = Len(nodes) + 1 \/ nodes[i].kid = INACTIVE
          /\ \A i \in 1..Len(nodes) : nodes[i].kid # INACTIVE => nodes'[i] = nodes[i]]_vars

(* add_node has recycled the third slot of a pool whose other nodes, one of   *)
(* them a leaf, keep the worlds an earlier update() wrote                     *)
C34_Witness ==
    /\ sc_pc = "idle"
    /\ sc_edits = 1
    /\ Len(nodes) = 3
    /\ InactiveSlots(nodes) = {}
    /\ nodes[1].world # IDENTITY
    /\ nodes[2].world # IDENTITY
    /\ nodes[3].world = IDENTITY
    /\ \E i \in 1..2 : nodes[i].kid = NONE

----------------------------------------------------------------------------
(* Properties of the drawable query *)

----------------------------------------------------------------------------
(* Order of the visits of Scene::update *)

(* the chain of siblings that starts at slot n: n, its sib, the sib of that   *)
RECURSIVE SibChain(_, _)
SibChain(ns, n) ==
    IF ns[n + 1].sib = NONE THEN {n} ELSE {n} \cup SibChain(ns, ns[n + 1].sib)

(* the children of slot n: the chain of siblings its kid starts *)
Children(ns, n) == IF ns[n + 1].kid = NONE THEN {} ELSE SibChain(ns, ns[n + 1].kid)

(* the place of slot n in active_nodes, 0 when it was not visited yet *)
VisitPos(n) == Position(active_nodes, n)

(* C32: while update() runs and when it has returned, a node was visited      *)
(* before the node its sib field names, and the children of a node visited    *)
(* earlier were visited before the children of a node visited later           *)
C32_SiblingOrder ==
    sc_pc \in {"pop", "loop", "done"} =>
        /\ \A n \in Slots(nodes) :
              (nodes[n + 1].sib # NONE /\ VisitPos(nodes[n + 1].sib) # 0)
                  => (VisitPos(n) # 0 /\ VisitPos(n) < VisitPos(nodes[n + 1].sib))
        /\ \A a, b \in Slots(nodes) :
              (VisitPos(a) # 0 /\ VisitPos(a) < VisitPos(b))
                  => \A ca \in Children(nodes, a), cb \in Children(nodes, b) :
                        VisitPos(cb) # 0 => (VisitPos(ca) # 0 /\ VisitPos(ca) < VisitPos(cb))

(* update() has returned on a pool in which the root and its sibling have a   *)
(* child each                                                                 *)
C32_Witness ==
    /\ sc_pc = "done"
    /\ Len(nodes) >= 4
    /\ nodes[1].sib = 1 /\ nodes[1].kid = 2
    /\ nodes[2].kid = 3
    /\ SubSeq(active_nodes, 1, 4) = <<0, 1, 2, 3>>

----------------------------------------------------------------------------
(* Frame of Scene::update *)

(* a step of update(): the call, a pop of the queue or a pass of the inner loop *)
UpdateStep == sc_pc' \in {"pop", "loop", "done"}

(* C33: a step of update() leaves the length of the pool and the sib, kid,    *)
(* local and draw fields of every node as they are, so that no node changes   *)
(* between active and inactive, and changes the world of no node other than   *)
(* the one it visits                                                          *)
C33_UpdateFrame ==
    [][UpdateStep =>
          /\ Len(nodes') = Len(nodes)
          /\ \A i \in 1..Len(nodes) :
                /\ nodes'[i].sib = nodes[i].sib
                /\ nodes'[i].kid = nodes[i].kid
                /\ nodes'[i].local = nodes[i].local
                /\ nodes'[i].draw = nodes[i].draw
                /\ IsActive(nodes'[i]) <=> IsActive(nodes[i])
                /\ nodes'[i].world # nodes[i].world =>
                      (sc_pc = "loop" /\ i = sc_cur.id + 1 /\ i - 1 \in sc_written')]_vars

(* update() has returned after it has written the worlds of three linked nodes *)
C33_Witness ==
    /\ sc_pc = "done"
    /\ Len(nodes) = 3
    /\ Len(active_nodes) = 3
    /\ nodes[1].kid # NONE
    /\ \A i \in 1..3 : nodes[i].world # IDENTITY /\ nodes[i].local = BuildXform(i - 1)

----------------------------------------------------------------------------
(* Termination of Scene::update *)

(* the links of a pool form a finite forest with every index in range *)
FiniteForest(ns) == LinksOk(ns) /\ \A l \in Links(ns) : l.to \in Slots(ns)

(* C19: on a pool whose links form a finite forest with all indices in range, *)
(* a running update() always has a step that changes its state, so that it    *)
(* goes on until the queue is empty and it returns, with or without inactive  *)
(* nodes in the pool                                                          *)
C19_UpdateTerminates ==
    (sc_pc \in {"pop", "loop"} /\ FiniteForest(nodes))
        => ENABLED <<UpdatePop \/ UpdateVisit>>_sceneVars

----------------------------------------------------------------------------
(* GPU buffers: RawBuf, TexBuf, StoreBuf (src/src/gfx/gl/mod.rs); BuddyAlloc *)
(* and BitAlloc are the MetaAllocator and BitMap of src/src/mem/mod.rs        *)

(* no RawMap is open *)
NoMap == [hnd |-> NoneVal, range |-> NoRange]

(* the min_size RawBuf::new gives its allocator *)
MIN_BLOCK == 512

(* size_of::<Vtx>(): pos 12, tx 4, norm 12, ty 4, color 16 *)
VTX_SIZE == 48

(* size_of::<u32>() *)
IDX_SIZE == 4

(* RawBuf::new(target, size): the allocator and an empty handle table *)
RawBufNew(size) ==
    [alloc |-> MetaNew(size, MIN_BLOCK), items |-> <<>>, free_list |-> <<>>]

(* the device buffer BufferData creates: size bytes, none written yet *)
DevNew(size) == [i \in 0..(size - 1) |-> 0]

(* mutant of RawBufAllocFails: a failed allocation is tracked as an empty range *)
RawBufAllocFailsNever(ret) == FALSE

(* RawBuf::alloc falls through to fatal! when the allocator returned None *)
RawBufAllocFails(ret) == ret = NoRange

(* RawBuf::alloc: the new buffer and the handle, or fatal *)
RawBufAlloc(rb, size) ==
    LET a == MetaAlloc(rb.alloc.free_lists, size, rb.alloc.min_order, rb.alloc.max_order)
        t == HandlesTrack(rb.items, rb.free_list, a.ret)
    IN  IF RawBufAllocFails(a.ret)
        THEN [buf |-> [rb EXCEPT !.alloc.free_lists = a.free_lists],
              hnd |-> NoneVal, fatal |-> TRUE]
        ELSE [buf |-> [alloc |-> [rb.alloc EXCEPT !.free_lists = a.free_lists],
                       items |-> t.items, free_list |-> t.free_list],
              hnd |-> t.idx, fatal |-> FALSE]

(* RawBuf::free: the handle is untracked; the allocator is not told *)
RawBufFree(rb, hnd) == [rb EXCEPT !.free_list = HandlesUntrack(@, hnd)]

(* RawBuf::map: the RawMap holds the handle and a copy of its range *)
RawBufMap(rb, hnd) == [hnd |-> hnd, range |-> rb.items[hnd + 1]]

(* the size of a device buffer *)
DevLen(d) == Cardinality(DOMAIN d)

(* the bytes a caller passes to write: len bytes, each 1 *)
DataByte == 1

(* the byte count RawMap::write passes to BufferSubData *)
UploadLen(range, len) == range.end - range.start

(* BufferSubData(target, offset, size, data): size bytes read from data go to *)
(* offset; bytes read past the end of the caller's slice have the value tail; *)
(* a range that leaves the buffer is an error and nothing is written          *)
BufferSubData(d, offset, size, len, tail) ==
    IF offset + size > DevLen(d)
    THEN [dev |-> d, err |-> TRUE]
    ELSE [dev |-> [i \in DOMAIN d |->
                      IF offset <= i /\ i < offset + size
                      THEN IF i - offset < len THEN DataByte ELSE tail
                      ELSE d[i]],
          err |-> FALSE]

(* RawMap::write of len bytes: the upload, fatal on a device error *)
RawMapWrite(d, range, len, tail) ==
    BufferSubData(d, range.start, UploadLen(range, len), len, tail)

(* TexBuf::new(dim, size) and StoreBuf::new(size): BitAlloc::new(size) *)
SlotBufNew(size) == BitMapNew(size)

(* TexBuf::alloc and StoreBuf::alloc: the slot, or fatal when the allocator returned None *)
SlotBufAlloc(sb) ==
    LET r == BitMapSetAny(sb.words, sb.free_list)
    IN  [buf |-> [words |-> r.words, free_list |-> r.free_list],
         hnd |-> r.ret, fatal |-> r.ret = NoneVal]

(* the sizes RawBuf::new is called with: one block, two blocks, and a size    *)
(* that is not a power of two                                                 *)
RawBufSizes == {16, 32, 48}

(* the sizes RawBuf::alloc is called with: 0, one block, above one block *)
AllocSizes == {0, 16, 17}

(* the slot counts TexBuf::new and StoreBuf::new are called with *)
SlotCounts == {0, 1}

(* the values of a byte read past the end of the caller's slice: the data     *)
(* byte, or another one                                                       *)
TailBytes == {DataByte, 2}

(* Gl before anything was allocated, for a RawBuf of size bytes and slot      *)
(* buffers of tsize and ssize slots                                           *)
GlNew(vsize, isize, tsize, ssize) ==
    /\ vbo = RawBufNew(vsize)
    /\ ibo = RawBufNew(isize)
    /\ dev = DevNew(isize)
    /\ rb_map = NoMap
    /\ rb_live = {}
    /\ tbo = SlotBufNew(tsize)
    /\ sbo = SlotBufNew(ssize)
    /\ meshes = <<>>
    /\ mesh_idxs = <<>>
    /\ gl_fatal = FALSE
    /\ gl_last = [op |-> "new", hnd |-> NoneVal, len |-> NoneVal]

(* RawBuf::alloc on the index buffer *)
RawAlloc ==
    /\ ~gl_fatal
    /\ rb_map = NoMap
    /\ \E size \in AllocSizes :
          LET r == RawBufAlloc(ibo, size)
          IN  /\ ibo' = r.buf
              /\ gl_fatal' = r.fatal
              /\ rb_live' = IF r.fatal THEN rb_live ELSE rb_live \cup {r.hnd}
              /\ gl_last' = [op |-> "alloc", hnd |-> r.hnd, len |-> size]
    /\ UNCHANGED <<vbo, dev, rb_map, tbo, sbo, meshes, mesh_idxs>>
    /\ UNCHANGED <<buddyVars, bitmapVars, handleVars, sceneVars, passVars, logVars>>

(* RawBuf::free with any handle alloc has returned so far, freed or not *)
RawFree ==
    /\ ~gl_fatal
    /\ rb_map = NoMap
    /\ Len(ibo.free_list) < MaxFrees
    /\ \E hnd \in 0..(Len(ibo.items) - 1) :
          /\ ibo' = RawBufFree(ibo, hnd)
          /\ rb_live' = rb_live \ {hnd}
          /\ gl_last' = [op |-> "free", hnd |-> hnd, len |-> NoneVal]
    /\ UNCHANGED <<vbo, dev, rb_map, tbo, sbo, meshes, mesh_idxs, gl_fatal>>
    /\ UNCHANGED <<buddyVars, bitmapVars, handleVars, sceneVars, passVars, logVars>>

(* RawBuf::map with any handle alloc has returned so far, freed or not *)
RawMap ==
    /\ ~gl_fatal
    /\ rb_map = NoMap
    /\ \E hnd \in 0..(Len(ibo.items) - 1) :
          /\ rb_map' = RawBufMap(ibo, hnd)
          /\ gl_last' = [op |-> "map", hnd |-> hnd, len |-> NoneVal]
    /\ UNCHANGED <<vbo, ibo, dev, rb_live, tbo, sbo, meshes, mesh_idxs, gl_fatal>>
    /\ UNCHANGED <<buddyVars, bitmapVars, handleVars, sceneVars, passVars, logVars>>

(* RawMap::write through the open map, with a slice one byte shorter than,    *)
(* as long as, or one byte longer than the mapped range                       *)
MapWrite ==
    /\ ~gl_fatal
    /\ rb_map # NoMap
    /\ \E d \in {-1, 0, 1}, tail \in TailBytes :
          LET len == (rb_map.range.end - rb_map.range.start) + d
              r == RawMapWrite(dev, rb_map.range, len, tail)
          IN  /\ dev' = r.dev
              /\ gl_fatal' = r.err
              /\ gl_last' = [op |-> "write", hnd |-> rb_map.hnd, len |-> len]
    /\ UNCHANGED <<vbo, ibo, rb_map, rb_live, tbo, sbo, meshes, mesh_idxs>>
    /\ UNCHANGED <<buddyVars, bitmapVars, handleVars, sceneVars, passVars, logVars>>

(* the RawMap is dropped *)
MapDrop ==
    /\ ~gl_fatal
    /\ rb_map # NoMap
    /\ rb_map' = NoMap
    /\ gl_last' = [op |-> "unmap", hnd |-> rb_map.hnd, len |-> NoneVal]
    /\ UNCHANGED <<vbo, ibo, dev, rb_live, tbo, sbo, meshes, mesh_idxs, gl_fatal>>
    /\ UNCHANGED <<buddyVars, bitmapVars, handleVars, sceneVars, passVars, logVars>>

----------------------------------------------------------------------------
(* Gl::mesh_alloc and the batching pass (src/src/gfx/gl/mod.rs) *)

(* mutant of MeshHandle: the index of the last record instead of the new one *)
MeshHandleLast(ms) == Max(Len(ms) - 1, 0)

(* the handle mesh_alloc returns: meshes.len() before the push *)
MeshHandle(ms) == Len(ms)

(* Gl::mesh_alloc(vtxs, idxs); Buf<T>::alloc multiplies by size_of::<T>() *)
GlMeshAlloc(v, i, ms, vtxs, idxs) ==
    LET a == RawBufAlloc(v, vtxs * VTX_SIZE)
        b == RawBufAlloc(i, idxs * IDX_SIZE)
    IN  IF a.fatal
        THEN [vbo |-> a.buf, ibo |-> i, meshes |-> ms, hnd |-> NoneVal, fatal |-> TRUE]
        ELSE IF b.fatal
             THEN [vbo |-> a.buf, ibo |-> b.buf, meshes |-> ms,
                   hnd |-> NoneVal, fatal |-> TRUE]
             ELSE [vbo |-> a.buf, ibo |-> b.buf,
                   meshes |-> Append(ms, [vhnd |-> a.hnd, ihnd |-> b.hnd]),
                   hnd |-> MeshHandle(ms), fatal |-> FALSE]

(* the capacities Buf::<Vtx>::new and Buf::<u32>::new are called with *)
VtxCaps == {2, 4}

IdxCaps == {8, 16}

(* the vertex and index counts mesh_alloc is called with *)
VtxCounts == {0, 1, 2}

IdxCounts == {1, 6}

(* Gl::mesh_alloc *)
MeshAlloc ==
    /\ ~gl_fatal
    /\ rb_map = NoMap
    /\ \E vtxs \in VtxCounts, idxs \in IdxCounts :
          LET r == GlMeshAlloc(vbo, ibo, meshes, vtxs, idxs)
          IN  /\ vbo' = r.vbo
              /\ ibo' = r.ibo
              /\ meshes' = r.meshes
              /\ mesh_idxs' = IF Len(r.meshes) > Len(meshes)
                              THEN Append(mesh_idxs, idxs)
                              ELSE mesh_idxs
              /\ gl_fatal' = r.fatal
              /\ gl_last' = [op |-> "mesh_alloc", hnd |-> r.hnd, len |-> NoneVal]
    /\ UNCHANGED <<dev, rb_map, rb_live, tbo, sbo>>
    /\ UNCHANGED <<buddyVars, bitmapVars, handleVars, sceneVars, passVars, logVars>>

(* TexBuf::alloc *)
TexAlloc ==
    /\ ~gl_fatal
    /\ LET r == SlotBufAlloc(tbo)
       IN  /\ tbo' = r.buf
           /\ gl_fatal' = r.fatal
           /\ gl_last' = [op |-> "tex_alloc", hnd |-> r.hnd, len |-> NoneVal]
    /\ UNCHANGED <<vbo, ibo, dev, rb_map, rb_live, sbo, meshes, mesh_idxs>>
    /\ UNCHANGED <<buddyVars, bitmapVars, handleVars, sceneVars, passVars, logVars>>

(* StoreBuf::alloc *)
StoreAlloc ==
    /\ ~gl_fatal
    /\ LET r == SlotBufAlloc(sbo)
       IN  /\ sbo' = r.buf
           /\ gl_fatal' = r.fatal
           /\ gl_last' = [op |-> "store_alloc", hnd |-> r.hnd, len |-> NoneVal]
    /\ UNCHANGED <<vbo, ibo, dev, rb_map, rb_live, tbo, meshes, mesh_idxs>>
    /\ UNCHANGED <<buddyVars, bitmapVars, handleVars, sceneVars, passVars, logVars>>

(* mutant of BatchCmp: an empty batch is Less *)
BatchCmpEmptyLess(batch, hnd) ==
    IF batch.insts # <<>>
    THEN IF batch.hnd < hnd THEN "Less" ELSE IF batch.hnd = hnd THEN "Equal" ELSE "Greater"
    ELSE "Less"

(* mutant of BatchCmp: an empty batch is compared by its handle too *)
BatchCmpByHandle(batch, hnd) ==
    IF batch.hnd < hnd THEN "Less" ELSE IF batch.hnd = hnd THEN "Equal" ELSE "Greater"

(* the comparator of find_mesh_batch: an empty batch is Greater *)
BatchCmp(batch, hnd) ==
    IF batch.insts # <<>>
    THEN IF batch.hnd < hnd THEN "Less" ELSE IF batch.hnd = hnd THEN "Equal" ELSE "Greater"
    ELSE "Greater"

(* the loop of slice::binary_search_by; base counts from 0 *)
RECURSIVE BSearchLoop(_, _, _, _)
BSearchLoop(batches, hnd, base, size) ==
    IF size > 1
    THEN LET half == size \div 2
             mid == base + half
         IN  BSearchLoop(batches, hnd,
                         IF BatchCmp(batches[mid + 1], hnd) = "Greater" THEN base ELSE mid,
                         size - half)
    ELSE base

(* mutant of BinarySearchBy: nothing is found and the insertion point is the front *)
BinarySearchByFront(batches, hnd) == [ok |-> FALSE, idx |-> 0]

(* slice::binary_search_by with the comparator of find_mesh_batch: Ok(idx) or Err(idx) *)
BinarySearchBy(batches, hnd) ==
    IF batches = <<>>
    THEN [ok |-> FALSE, idx |-> 0]
    ELSE LET base == BSearchLoop(batches, hnd, 0, Len(batches))
             cmp == BatchCmp(batches[base + 1], hnd)
         IN  IF cmp = "Equal"
             THEN [ok |-> TRUE, idx |-> base]
             ELSE [ok |-> FALSE, idx |-> base + (IF cmp = "Less" THEN 1 ELSE 0)]

(* Vec::insert(idx, x), idx counted from 0 *)
InsertAt(s, idx, x) ==
    [k \in 1..(Len(s) + 1) |-> IF k <= idx THEN s[k] ELSE IF k = idx + 1 THEN x ELSE s[k - 1]]

(* Pass::find_mesh_batch: the batch list and the index of the batch for hnd *)
FindMeshBatch(batches, hnd) ==
    LET r == BinarySearchBy(batches, hnd)
    IN  IF r.ok
        THEN [batches |-> batches, idx |-> r.idx]
        ELSE [batches |-> InsertAt(batches, r.idx,
                                   [hnd |-> hnd, store |-> 0, insts |-> <<>>]),
              idx |-> r.idx]

(* the MeshInst pushed for a Mesh drawable: its texture index; mesh is the    *)
(* handle of the drawable it was made from                                    *)
MeshInst(draw) == [mesh |-> draw.hnd, tex |-> draw.tex]

(* Pass::draw for one item of the iterator *)
PassDrawOne(batches, draw) ==
    IF draw.kind = "None"
    THEN batches
    ELSE LET f == FindMeshBatch(batches, draw.hnd)
         IN  [f.batches EXCEPT ![f.idx + 1].insts = Append(@, MeshInst(draw))]

(* Pass::draw: the loop over the iterator *)
RECURSIVE PassDrawAll(_, _)
PassDrawAll(batches, input) ==
    IF input = <<>> THEN batches
    ELSE PassDrawAll(PassDrawOne(batches, Head(input)), Tail(input))

(* mutant of ClearInsts: the instances stay in the batch *)
ClearInstsKeeps(insts) == insts

(* batch.insts.clear() *)
ClearInsts(insts) == <<>>

(* Drop for Pass: the loop over the batches stops at the first empty one; each *)
(* batch before it is drawn with its instances and cleared                    *)
RECURSIVE PassDropLoop(_, _, _, _, _)
PassDropLoop(batches, k, draws, ms, items) ==
    IF k > Len(batches) \/ batches[k].insts = <<>>
    THEN [batches |-> batches, draws |-> draws]
    ELSE LET range == items[ms[batches[k].hnd + 1].ihnd + 1]
             draw == [hnd |-> batches[k].hnd,
                      store |-> batches[k].store,
                      index_count |-> (range.end - range.start) \div IDX_SIZE,
                      index_offset |-> range.start,
                      base_vertex |-> range.start \div IDX_SIZE,
                      instances |-> Len(batches[k].insts),
                      insts |-> batches[k].insts]
         IN  PassDropLoop([batches EXCEPT ![k].insts = ClearInsts(@)], k + 1,
                          Append(draws, draw), ms, items)

(* the mesh handles drawables name: the handles mesh_alloc has returned *)
MeshHandles == 0..(Len(meshes) - 1)

(* the texture handles drawables name *)
TexHandles == {0, 1}

(* the mesh handles of the Mesh drawables of an input *)
InputMeshes(input) == {input[k].hnd : k \in {j \in 1..Len(input) : input[j].kind = "Mesh"}}

(* the sequences of at most n drawables *)
RECURSIVE DrawSeqs(_)
DrawSeqs(n) ==
    IF n = 0 THEN {<<>>}
    ELSE LET S == DrawSeqs(n - 1)
         IN  S \cup {Append(s, d) : s \in {t \in S : Len(t) = n - 1},
                                    d \in {DrawNone} \cup
                                          {DrawMeshTex(h, t) : h \in MeshHandles,
                                                               t \in TexHandles}}

(* Gl::pass: a Pass is created *)
PassBegin ==
    /\ ~gl_fatal
    /\ ps_pc \in {"none", "dropped"}
    /\ ps_passes < MaxPasses
    /\ ps_passes' = ps_passes + 1
    /\ ps_pc' = "open"
    /\ ps_input' = <<>>
    /\ ps_draws' = <<>>
    /\ UNCHANGED <<mesh_batches, ps_sets>>
    /\ UNCHANGED <<buddyVars, bitmapVars, handleVars, sceneVars, bufVars, logVars>>

(* Pass::draw with an iterator of one or two drawables *)
PassDraw ==
    /\ ps_pc = "open"
    /\ \E input \in DrawSeqs(2) :
          /\ input # <<>>
          /\ Len(ps_input) + Len(input) <= MaxDraw
          /\ mesh_batches' = PassDrawAll(mesh_batches, input)
          /\ ps_input' = ps_input \o input
    /\ UNCHANGED <<ps_pc, ps_draws, ps_passes, ps_sets>>
    /\ UNCHANGED <<buddyVars, bitmapVars, handleVars, sceneVars, bufVars, logVars>>

(* the Pass is dropped *)
PassDrop ==
    /\ ps_pc = "open"
    /\ LET r == PassDropLoop(mesh_batches, 1, <<>>, meshes, ibo.items)
       IN  /\ mesh_batches' = r.batches
           /\ ps_draws' = r.draws
    /\ ps_pc' = "dropped"
    /\ ps_sets' = Append(ps_sets, InputMeshes(ps_input))
    /\ UNCHANGED <<ps_input, ps_passes>>
    /\ UNCHANGED <<buddyVars, bitmapVars, handleVars, sceneVars, bufVars, logVars>>

(* no Pass was created yet *)
IdlePass ==
    /\ mesh_batches = <<>>
    /\ ps_pc = "none"
    /\ ps_input = <<>>
    /\ ps_draws = <<>>
    /\ ps_passes = 0
    /\ ps_sets = <<>>

(* Gl::new with buffers of one byte and no slots, never used *)
IdleGl == GlNew(1, 1, 0, 0) /\ IdlePass

(* the index counts of the meshes a pass is run on: a triangle's worth of
   one index, the six indices of the quad of main.rs, one index again *)
PassMeshIdxs == <<1, 6, 1>>

(* mesh_alloc(1, reqs[k]) called for each k in turn *)
RECURSIVE MeshAllocEach(_, _, _, _)
MeshAllocEach(v, i, ms, reqs) ==
    IF reqs = <<>> THEN [vbo |-> v, ibo |-> i, meshes |-> ms]
    ELSE LET r == GlMeshAlloc(v, i, ms, 1, Head(reqs))
         IN  MeshAllocEach(r.vbo, r.ibo, r.meshes, Tail(reqs))

----------------------------------------------------------------------------
(* Properties of the batching pass *)

(* how many drawables of an input reference mesh m *)
InputCount(input, m) ==
    Cardinality({k \in 1..Len(input) : input[k].kind = "Mesh" /\ input[k].hnd = m})

(* C12: when a pass has been dropped, it has issued exactly one instanced draw *)
(* per distinct mesh handle of the Mesh drawables it was given, and the draw   *)
(* for mesh M has as many instances as drawables of the input reference M.     *)
C12_OneDrawPerMesh ==
    ps_pc = "dropped" =>
        /\ Len(ps_draws) = Cardinality(InputMeshes(ps_input))
        /\ \A m \in InputMeshes(ps_input) :
              \E k \in 1..Len(ps_draws) :
                  /\ ps_draws[k].hnd = m
                  /\ ps_draws[k].instances = InputCount(ps_input, m)

(* the second pass was given two drawables of mesh 1 and one of mesh 0 and    *)
(* has issued 2 draws, the one for mesh 1 with 2 instances                    *)
C12_Witness ==
    /\ ps_pc = "dropped"
    /\ ps_passes = 2
    /\ ps_input = <<DrawMesh(1), DrawMesh(0), DrawMesh(1)>>
    /\ Len(ps_draws) = 2
    /\ \E k \in 1..2 : ps_draws[k].hnd = 1 /\ ps_draws[k].instances = 2

(* C27: when every pass so far has drawn the same set of mesh handles, the    *)
(* batch list after a pass has one entry per mesh handle of that set: the     *)
(* batches are reused and the list does not grow with the number of passes    *)
C27_BatchPooling ==
    (ps_pc = "dropped" /\ \A k \in 1..Len(ps_sets) : ps_sets[k] = ps_sets[1])
        => Len(mesh_batches) = Cardinality(ps_sets[1])

(* the handles of the non-empty batches of a batch list, in list order *)
NonEmptyHandles(batches) ==
    LET ne == SelectSeq(batches, LAMBDA b : b.insts # <<>>)
    IN  [k \in 1..Len(ne) |-> ne[k].hnd]

(* a sequence of numbers is strictly increasing *)
StrictlyIncreasing(s) == \A i, j \in 1..Len(s) : i < j => s[i] < s[j]

(* C28: during a pass the non-empty batches of the batch list are in strictly *)
(* increasing order of mesh handle, so no two of them are for the same mesh,  *)
(* and teardown issues its draws in increasing order of mesh handle           *)
C28_BatchOrder ==
    /\ ps_pc = "open" => StrictlyIncreasing(NonEmptyHandles(mesh_batches))
    /\ ps_pc = "dropped" => StrictlyIncreasing([k \in 1..Len(ps_draws) |-> ps_draws[k].hnd])

(* a later pass was given mesh 2 before mesh 0 and has drawn mesh 0 first *)
C28_Witness ==
    /\ ps_pc = "dropped"
    /\ ps_passes = 2
    /\ Len(ps_input) = 2
    /\ ps_input[1] = DrawMesh(2)
    /\ ps_input[2] = DrawMesh(0)
    /\ Len(ps_draws) = 2
    /\ ps_draws[1].hnd = 0
    /\ ps_draws[2].hnd = 2

(* C29: in every state in which a pass can be torn down, every non-empty      *)
(* batch of the batch list precedes every empty one, so the loop of teardown, *)
(* which stops at the first empty batch, skips no non-empty batch             *)
C29_NonEmptyFirst ==
    ps_pc = "open" =>
        \A i, j \in 1..Len(mesh_batches) :
            (i < j /\ mesh_batches[i].insts = <<>>) => mesh_batches[j].insts = <<>>

(* a later pass is open with two non-empty batches ahead of the empty batches *)
(* an earlier pass left                                                       *)
C29_Witness ==
    /\ ps_pc = "open"
    /\ ps_passes = 2
    /\ Len(mesh_batches) >= 4
    /\ mesh_batches[1].insts # <<>>
    /\ mesh_batches[2].insts # <<>>
    /\ mesh_batches[3].insts = <<>>
    /\ mesh_batches[4].insts = <<>>

(* the instance records of the drawables of an input that reference mesh m,   *)
(* in input order                                                             *)
InstsOf(input, m) ==
    LET ds == SelectSeq(input, LAMBDA d : d.kind = "Mesh" /\ d.hnd = m)
    IN  [k \in 1..Len(ds) |-> [mesh |-> m, tex |-> ds[k].tex]]

(* C30: after teardown the instance list of every batch is empty, and the     *)
(* instances a pass has drawn are exactly those of the Mesh drawables given   *)
(* to Pass::draw in that pass, in input order within each batch, none of an   *)
(* earlier pass                                                               *)
C30_NoCarryOver ==
    ps_pc = "dropped" =>
        /\ \A k \in 1..Len(mesh_batches) : mesh_batches[k].insts = <<>>
        /\ \A m \in InputMeshes(ps_input) : \E k \in 1..Len(ps_draws) : ps_draws[k].hnd = m
        /\ \A k \in 1..Len(ps_draws) :
              /\ ps_draws[k].hnd \in InputMeshes(ps_input)
              /\ ps_draws[k].insts = InstsOf(ps_input, ps_draws[k].hnd)

(* the second pass has drawn a mesh the first pass drew too, with two          *)
(* instances of different textures                                            *)
C30_Witness ==
    /\ ps_pc = "dropped"
    /\ ps_passes = 2
    /\ Len(ps_sets) = 2
    /\ ps_sets[1] \cap ps_sets[2] # {}
    /\ \E k \in 1..Len(ps_draws) :
          /\ ps_draws[k].hnd \in ps_sets[1]
          /\ ps_draws[k].insts = <<[mesh |-> ps_draws[k].hnd, tex |-> 1],
                                   [mesh |-> ps_draws[k].hnd, tex |-> 0]>>

(* C31: the instanced draw of a batch of mesh M, with record (vertex region V, *)
(* index region I), has index count length(I) / 4, index byte offset I.start, *)
(* instance count the number of instances of the batch, and base vertex       *)
(* V.start / size_of(Vtx)                                                     *)
C31_DrawParameters ==
    ps_pc = "dropped" =>
        \A k \in 1..Len(ps_draws) :
            LET rec == meshes[ps_draws[k].hnd + 1]
                V == vbo.items[rec.vhnd + 1]
                I == ibo.items[rec.ihnd + 1]
            IN  /\ ps_draws[k].index_count = (I.end - I.start) \div IDX_SIZE
                /\ ps_draws[k].index_offset = I.start
                /\ ps_draws[k].instances = Len(ps_draws[k].insts)
                /\ ps_draws[k].base_vertex = V.start \div VTX_SIZE

(* C36: the instanced draw issued for a mesh created by mesh_alloc(v, i) uses *)
(* index count exactly i, also when the byte size of i indices is not a power *)
(* of two (i = 6)                                                             *)
C36_IndexCountMatchesMesh ==
    ps_pc = "dropped" =>
        \A k \in 1..Len(ps_draws) :
            ps_draws[k].index_count = mesh_idxs[ps_draws[k].hnd + 1]

----------------------------------------------------------------------------
(* Properties of RawBuf and RawMap *)

(* a step of RawMap::write through the open map *)
WriteStep == ~gl_fatal /\ rb_map # NoMap /\ rb_map' = rb_map /\ gl_last'.op = "write"

(* a step of RawBuf::map *)
MapStep == ~gl_fatal /\ rb_map = NoMap /\ rb_map' # NoMap

(* a step of RawBuf::free *)
FreeStep == ~gl_fatal /\ Len(ibo'.free_list) = Len(ibo.free_list) + 1

(* the byte offsets of a range *)
Offsets(range) == {i \in DOMAIN dev : range.start <= i /\ i < range.end}

(* C13: a write through the map of a live handle h that is not aborted leaves  *)
(* in region(h) exactly the bytes the caller supplied, changes no byte outside *)
(* region(h), and changes no byte of another live handle's region.             *)
C13_MapIsolation ==
    [][(WriteStep /\ rb_map.hnd \in rb_live /\ ~gl_fatal') =>
          /\ gl_last'.len = rb_map.range.end - rb_map.range.start
          /\ \A i \in Offsets(rb_map.range) : dev'[i] = DataByte
          /\ \A i \in DOMAIN dev \ Offsets(rb_map.range) : dev'[i] = dev[i]
          /\ \A h \in rb_live \ {rb_map.hnd} :
                \A i \in Offsets(ibo.items[h + 1]) : dev'[i] = dev[i]
      ]_vars

(* C14: a write whose byte length differs from the length of the mapped region *)
(* is fatal and uploads nothing.                                               *)
C14_LengthCheck ==
    [][(WriteStep /\ gl_last'.len # rb_map.range.end - rb_map.range.start) =>
          (gl_fatal' /\ dev' = dev)
      ]_vars

(* C16: map(h) or free(h) of a handle that is not live (freed and not          *)
(* returned again by alloc) is fatal.                                          *)
C16_FreedHandleFatal ==
    [][/\ (MapStep /\ rb_map'.hnd \notin rb_live) => gl_fatal'
       /\ (FreeStep /\ ibo'.free_list[Len(ibo'.free_list)] \notin rb_live) => gl_fatal'
      ]_vars

(* C25: after RawBuf::free of a live handle the bytes of its region are with  *)
(* the buddy allocator again: an alloc of the size of the region succeeds     *)
C25_FreeReturnsSpace ==
    [][(FreeStep /\ ibo'.free_list[Len(ibo'.free_list)] \in rb_live)
          => LET range == ibo.items[ibo'.free_list[Len(ibo'.free_list)] + 1]
             IN  MetaAlloc(ibo'.alloc.free_lists, range.end - range.start,
                           ibo'.alloc.min_order, ibo'.alloc.max_order).ret # NoRange]_vars

(* C35: every region RawBuf::alloc has returned lies inside the device buffer, *)
(* whose size is the capacity the buffer was created with                     *)
C35_RegionsInBuffer ==
    \A k \in 1..Len(ibo.items) :
        /\ 0 <= ibo.items[k].start
        /\ ibo.items[k].end <= DevLen(dev)

----------------------------------------------------------------------------
(* Properties of resource exhaustion *)

(* a step of RawBuf::alloc in which the buddy allocator returned None *)
RawAllocNoneStep ==
    /\ ~gl_fatal
    /\ gl_last'.op = "alloc"
    /\ MetaAlloc(ibo.alloc.free_lists, gl_last'.len,
                 ibo.alloc.min_order, ibo.alloc.max_order).ret = NoRange

(* a step of TexBuf::alloc in which set_any returned None *)
TexAllocNoneStep ==
    /\ ~gl_fatal
    /\ gl_last'.op = "tex_alloc"
    /\ BitMapSetAny(tbo.words, tbo.free_list).ret = NoneVal

(* a step of StoreBuf::alloc in which set_any returned None *)
StoreAllocNoneStep ==
    /\ ~gl_fatal
    /\ gl_last'.op = "store_alloc"
    /\ BitMapSetAny(sbo.words, sbo.free_list).ret = NoneVal

(* C15: whenever the underlying allocator returns None, the buffer-level      *)
(* alloc ends in the fatal state, returns no handle and tracks none; nothing  *)
(* runs after the fatal state, so no handle is returned later either          *)
C15_ExhaustionFatal ==
    [][/\ RawAllocNoneStep =>
            /\ gl_fatal'
            /\ gl_last'.hnd = NoneVal
            /\ ibo'.items = ibo.items
            /\ ibo'.free_list = ibo.free_list
            /\ rb_live' = rb_live
       /\ TexAllocNoneStep =>
            /\ gl_fatal'
            /\ gl_last'.hnd = NoneVal
            /\ tbo'.words = tbo.words
       /\ StoreAllocNoneStep =>
            /\ gl_fatal'
            /\ gl_last'.hnd = NoneVal
            /\ sbo'.words = sbo.words
       /\ gl_fatal => UNCHANGED vars]_vars

(* RawBuf::alloc has failed after an earlier allocation succeeded *)
C15_Witness ==
    /\ gl_fatal
    /\ gl_last.op = "alloc"
    /\ gl_last.hnd = NoneVal
    /\ Len(ibo.items) >= 1
    /\ rb_live # {}

----------------------------------------------------------------------------
(* Properties of Gl::mesh_alloc *)

(* a step in which mesh_alloc returns *)
MeshAllocStep == ~gl_fatal /\ gl_last'.op = "mesh_alloc" /\ ~gl_fatal'

(* C17: a call of mesh_alloc that returns has tracked exactly one more range  *)
(* in the vertex buffer and one more in the index buffer, has appended the    *)
(* pair of their handles to the mesh registry without changing the earlier    *)
(* records, and returns the number of meshes recorded before the call, which  *)
(* is greater than the handle the previous call returned                      *)
C17_MeshHandleSpace ==
    [][MeshAllocStep =>
          /\ Len(vbo'.items) = Len(vbo.items) + 1
          /\ Len(ibo'.items) = Len(ibo.items) + 1
          /\ SubSeq(vbo'.items, 1, Len(vbo.items)) = vbo.items
          /\ SubSeq(ibo'.items, 1, Len(ibo.items)) = ibo.items
          /\ Len(meshes') = Len(meshes) + 1
          /\ SubSeq(meshes', 1, Len(meshes)) = meshes
          /\ meshes'[Len(meshes')] = [vhnd |-> Len(vbo.items), ihnd |-> Len(ibo.items)]
          /\ gl_last'.hnd = Len(meshes)
          /\ gl_last.op = "mesh_alloc" => gl_last'.hnd > gl_last.hnd]_vars

(* the second call of mesh_alloc has returned *)
C17_Witness ==
    /\ ~gl_fatal
    /\ gl_last.op = "mesh_alloc"
    /\ gl_last.hnd = 1
    /\ Len(meshes) = 2
    /\ meshes[2] = [vhnd |-> 1, ihnd |-> 1]

----------------------------------------------------------------------------
(* Properties of the split in MetaAllocator::alloc *)

(* the smallest order above order whose free list is not empty *)
NextNonEmpty(fl, order, maxo) ==
    CHOOSE c \in (order + 1)..maxo :
        fl[c] # <<>> /\ \A k \in (order + 1)..(c - 1) : fl[k] = <<>>

(* C22: a successful alloc whose target-order free list is empty removes      *)
(* exactly one block, from the smallest non-empty free list of higher order,  *)
(* pushes exactly one buddy onto each free list from the target order to one  *)
(* below that order, and leaves every other free-list entry unchanged         *)
C22_ConsumesOneBlock ==
    [][\A s \in 0..MaxReq :
          LET order == OrderOf(s, min_order)
              a == MetaAlloc(free_lists, s, min_order, max_order)
          IN  (/\ order <= max_order
               /\ a.ret # NoRange
               /\ free_lists[order] = <<>>
               /\ free_lists' = a.free_lists
               /\ outstanding' = outstanding (+) SetToBag({a.ret}))
                  => LET c == NextNonEmpty(free_lists, order, max_order)
                     IN  \A k \in 0..max_order :
                            IF k = c
                            THEN free_lists'[k] = Tail(free_lists[k])
                            ELSE IF order <= k /\ k < c
                                 THEN /\ Len(free_lists'[k]) = Len(free_lists[k]) + 1
                                      /\ SubSeq(free_lists'[k], 1, Len(free_lists[k]))
                                            = free_lists[k]
                                 ELSE free_lists'[k] = free_lists[k]]_vars

----------------------------------------------------------------------------
(* The asynchronous logger (src/src/log.rs) and fatal! (src/src/lib.rs) *)

(* the thread whose return ends the process, and another thread that logs *)
MainThread == "main"

Threads == {MainThread, "worker"}

(* the record a thread is not logging *)
NoRec == [id |-> NoneVal, fatal |-> FALSE, pre |-> {}]

(* the closure of the logger thread has returned: rx and btx are dropped, and
   both channels are disconnected *)
Disconnected == lg_logger.pc = "done"

(* a cleared buffer is not put back *)
LeakBuf(n) == n

(* btx.send(buf): one more buffer in the ready-to-fill channel *)
ReturnBuf(n) == n + 1

(* log::init up to its last statement: QUEUE_SIZE buffers in the ready-to-fill
   channel, the logger thread spawned, and the calling thread about to log
   "Logger initialized" *)
InitLogVars ==
    /\ lg_free = QUEUE_SIZE
    /\ lg_ready = <<>>
    /\ lg_thr = [t \in Threads |->
                    IF t = MainThread
                    THEN [pc |-> "enabled", rec |-> [id |-> 0, fatal |-> FALSE, pre |-> {}]]
                    ELSE [pc |-> "idle", rec |-> NoRec]]
    /\ lg_logger = [pc |-> "recv", msg |-> NoneVal]
    /\ lg_running = TRUE
    /\ lg_hnd = [locked |-> FALSE, some |-> TRUE]
    /\ lg_out = <<>>
    /\ lg_exit = "alive"
    /\ lg_next = 1

(* a panic of thread t: the thread ends, and the process with it, status 101,
   when t is the main thread *)
Panics(t) ==
    IF t = MainThread
    THEN /\ lg_exit' = "exit_101"
         /\ UNCHANGED lg_thr
    ELSE /\ lg_thr' = [lg_thr EXCEPT ![t] = [pc |-> "panicked", rec |-> NoRec]]
         /\ UNCHANGED lg_exit

(* Log::log returns to thread t: fatal! goes on to unreachable!() *)
Returns(t) ==
    IF lg_thr[t].rec.fatal
    THEN Panics(t)
    ELSE /\ lg_thr' = [lg_thr EXCEPT ![t] = [pc |-> "idle", rec |-> NoRec]]
         /\ UNCHANGED lg_exit

(* a thread calls Log::log: the test of the target *)
LogBegin(t) ==
    /\ lg_exit = "alive"
    /\ lg_thr[t].pc = "idle"
    /\ lg_next <= MaxLogs
    /\ \E fatal \in BOOLEAN :
          lg_thr' = [lg_thr EXCEPT ![t] =
                        [pc |-> IF fatal THEN "lock" ELSE "enabled",
                         rec |-> [id |-> lg_next, fatal |-> fatal,
                                  pre |-> IF fatal
                                          THEN {lg_ready[k] : k \in 1..Len(lg_ready)}
                                          ELSE {}]]]
    /\ lg_next' = lg_next + 1
    /\ UNCHANGED <<lg_free, lg_ready, lg_logger, lg_running, lg_hnd, lg_out, lg_exit>>
    /\ UNCHANGED <<buddyVars, bitmapVars, handleVars, sceneVars, bufVars, passVars>>

(* self.hnd.lock() and hnd.take(): with the handle the fatal path goes on and
   keeps the guard; without it the guard is dropped and the normal path runs *)
FatalLock(t) ==
    /\ lg_exit = "alive"
    /\ lg_thr[t].pc = "lock"
    /\ ~lg_hnd.locked
    /\ IF lg_hnd.some
       THEN /\ lg_hnd' = [locked |-> TRUE, some |-> FALSE]
            /\ lg_thr' = [lg_thr EXCEPT ![t].pc = "store"]
       ELSE /\ lg_thr' = [lg_thr EXCEPT ![t].pc = "enabled"]
            /\ UNCHANGED lg_hnd
    /\ UNCHANGED <<lg_free, lg_ready, lg_logger, lg_running, lg_out, lg_exit, lg_next>>
    /\ UNCHANGED <<buddyVars, bitmapVars, handleVars, sceneVars, bufVars, passVars>>

(* RUNNING.store(false) *)
FatalStore(t) ==
    /\ lg_exit = "alive"
    /\ lg_thr[t].pc = "store"
    /\ lg_running' = FALSE
    /\ lg_thr' = [lg_thr EXCEPT ![t].pc = "join"]
    /\ UNCHANGED <<lg_free, lg_ready, lg_logger, lg_hnd, lg_out, lg_exit, lg_next>>
    /\ UNCHANGED <<buddyVars, bitmapVars, handleVars, sceneVars, bufVars, passVars>>

(* hnd.join() returns once the logger thread has ended *)
FatalJoin(t) ==
    /\ lg_exit = "alive"
    /\ lg_thr[t].pc = "join"
    /\ lg_logger.pc = "done"
    /\ lg_thr' = [lg_thr EXCEPT ![t].pc = "print"]
    /\ UNCHANGED <<lg_free, lg_ready, lg_logger, lg_running, lg_hnd, lg_out, lg_exit, lg_next>>
    /\ UNCHANGED <<buddyVars, bitmapVars, handleVars, sceneVars, bufVars, passVars>>

(* eprintln! of the fatal line *)
FatalPrint(t) ==
    /\ lg_exit = "alive"
    /\ lg_thr[t].pc = "print"
    /\ lg_out' = Append(lg_out, [id |-> lg_thr[t].rec.id, fatal |-> TRUE])
    /\ lg_thr' = [lg_thr EXCEPT ![t].pc = "exit"]
    /\ UNCHANGED <<lg_free, lg_ready, lg_logger, lg_running, lg_hnd, lg_exit, lg_next>>
    /\ UNCHANGED <<buddyVars, bitmapVars, handleVars, sceneVars, bufVars, passVars>>

(* process::exit(1) *)
FatalExit(t) ==
    /\ lg_exit = "alive"
    /\ lg_thr[t].pc = "exit"
    /\ lg_exit' = "exit_1"
    /\ UNCHANGED <<lg_free, lg_ready, lg_thr, lg_logger, lg_running, lg_hnd, lg_out, lg_next>>
    /\ UNCHANGED <<buddyVars, bitmapVars, handleVars, sceneVars, bufVars, passVars>>

(* if !self.enabled(..) { return; } *)
LogEnabled(t) ==
    /\ lg_exit = "alive"
    /\ lg_thr[t].pc = "enabled"
    /\ IF lg_running
       THEN /\ lg_thr' = [lg_thr EXCEPT ![t].pc = "recv"]
            /\ UNCHANGED lg_exit
       ELSE Returns(t)
    /\ UNCHANGED <<lg_free, lg_ready, lg_logger, lg_running, lg_hnd, lg_out, lg_next>>
    /\ UNCHANGED <<buddyVars, bitmapVars, handleVars, sceneVars, bufVars, passVars>>

(* self.brx.recv().unwrap() and the write! into the buffer: blocks while the
   channel is empty, an error once it is empty and disconnected *)
LogRecv(t) ==
    /\ lg_exit = "alive"
    /\ lg_thr[t].pc = "recv"
    /\ \/ /\ lg_free > 0
          /\ lg_free' = lg_free - 1
          /\ lg_thr' = [lg_thr EXCEPT ![t].pc = "send"]
          /\ UNCHANGED lg_exit
       \/ /\ lg_free = 0
          /\ Disconnected
          /\ Panics(t)
          /\ UNCHANGED lg_free
    /\ UNCHANGED <<lg_ready, lg_logger, lg_running, lg_hnd, lg_out, lg_next>>
    /\ UNCHANGED <<buddyVars, bitmapVars, handleVars, sceneVars, bufVars, passVars>>

(* self.tx.send(buf).unwrap(): blocks while the channel is full, an error once
   it is disconnected *)
LogSend(t) ==
    /\ lg_exit = "alive"
    /\ lg_thr[t].pc = "send"
    /\ \/ /\ ~Disconnected
          /\ Len(lg_ready) < QUEUE_SIZE
          /\ lg_ready' = Append(lg_ready, lg_thr[t].rec.id)
          /\ Returns(t)
       \/ /\ Disconnected
          /\ Panics(t)
          /\ UNCHANGED lg_ready
    /\ UNCHANGED <<lg_free, lg_logger, lg_running, lg_hnd, lg_out, lg_next>>
    /\ UNCHANGED <<buddyVars, bitmapVars, handleVars, sceneVars, bufVars, passVars>>

(* rx.recv_timeout(500 ms): the oldest message, or the timeout on an empty channel *)
LoggerRecv ==
    /\ lg_exit = "alive"
    /\ lg_logger.pc = "recv"
    /\ IF lg_ready # <<>>
       THEN /\ lg_logger' = [pc |-> "print", msg |-> Head(lg_ready)]
            /\ lg_ready' = Tail(lg_ready)
       ELSE /\ lg_logger' = [pc |-> "check", msg |-> NoneVal]
            /\ UNCHANGED lg_ready
    /\ UNCHANGED <<lg_free, lg_thr, lg_running, lg_hnd, lg_out, lg_exit, lg_next>>
    /\ UNCHANGED <<buddyVars, bitmapVars, handleVars, sceneVars, bufVars, passVars>>

(* eprintln!("{buf}"); buf.clear() *)
LoggerPrint ==
    /\ lg_exit = "alive"
    /\ lg_logger.pc = "print"
    /\ lg_out' = Append(lg_out, [id |-> lg_logger.msg, fatal |-> FALSE])
    /\ lg_logger' = [pc |-> "send", msg |-> NoneVal]
    /\ UNCHANGED <<lg_free, lg_ready, lg_thr, lg_running, lg_hnd, lg_exit, lg_next>>
    /\ UNCHANGED <<buddyVars, bitmapVars, handleVars, sceneVars, bufVars, passVars>>

(* btx.send(buf).unwrap(): blocks while the channel is full *)
LoggerSend ==
    /\ lg_exit = "alive"
    /\ lg_logger.pc = "send"
    /\ lg_free < QUEUE_SIZE
    /\ lg_free' = ReturnBuf(lg_free)
    /\ lg_logger' = [lg_logger EXCEPT !.pc = "check"]
    /\ UNCHANGED <<lg_ready, lg_thr, lg_running, lg_hnd, lg_out, lg_exit, lg_next>>
    /\ UNCHANGED <<buddyVars, bitmapVars, handleVars, sceneVars, bufVars, passVars>>

(* if !RUNNING.load() { break; }: the closure returns and the thread ends *)
LoggerCheck ==
    /\ lg_exit = "alive"
    /\ lg_logger.pc = "check"
    /\ lg_logger' = [lg_logger EXCEPT !.pc = IF lg_running THEN "recv" ELSE "done"]
    /\ UNCHANGED <<lg_free, lg_ready, lg_thr, lg_running, lg_hnd, lg_out, lg_exit, lg_next>>
    /\ UNCHANGED <<buddyVars, bitmapVars, handleVars, sceneVars, bufVars, passVars>>

NextLog ==
    \/ \E t \in Threads : LogBegin(t)
    \/ \E t \in Threads : FatalLock(t)
    \/ \E t \in Threads : FatalStore(t)
    \/ \E t \in Threads : FatalJoin(t)
    \/ \E t \in Threads : FatalPrint(t)
    \/ \E t \in Threads : FatalExit(t)
    \/ \E t \in Threads : LogEnabled(t)
    \/ \E t \in Threads : LogRecv(t)
    \/ \E t \in Threads : LogSend(t)
    \/ LoggerRecv \/ LoggerPrint \/ LoggerSend \/ LoggerCheck

----------------------------------------------------------------------------
(* Properties of the logger *)

(* the buffers held by the logging threads: taken from brx, not yet sent on tx *)
HeldByThreads == Cardinality({t \in Threads : lg_thr[t].pc = "send"})

(* the buffer held by the logger thread: received from rx, not yet sent on btx *)
HeldByLogger == IF lg_logger.pc \in {"print", "send"} THEN 1 ELSE 0

(* the logger thread has not left its loop and the process has not ended *)
LoggerRuns == lg_exit = "alive" /\ lg_logger.pc # "done"

(* C37: while the logger thread runs, the buffers in the ready-to-fill channel, *)
(* in the ready-to-print channel and in the hands of the logging threads and   *)
(* of the logger thread are QUEUE_SIZE together, so that a send on either      *)
(* bounded channel finds room and does not block                               *)
C37_BufferConservation ==
    LoggerRuns =>
        /\ lg_free + Len(lg_ready) + HeldByThreads + HeldByLogger = QUEUE_SIZE
        /\ \A t \in Threads : lg_thr[t].pc = "send" => Len(lg_ready) < QUEUE_SIZE
        /\ lg_logger.pc = "send" => lg_free < QUEUE_SIZE

(* every buffer is out of the ready-to-fill channel while the logger thread runs: *)
(* one is with a logging thread, one with the logger thread                       *)
C37_Witness ==
    /\ LoggerRuns
    /\ lg_free = 0
    /\ HeldByThreads >= 1
    /\ lg_logger.pc = "send"
    /\ Len(lg_out) >= 1

(* the fatal line is among the lines printed *)
FatalPrinted == \E k \in 1..Len(lg_out) : lg_out[k].fatal

(* C38: after a record with target FATAL is logged the logger thread ends, the *)
(* fatal line is printed only after the logger thread has ended, and the       *)
(* process ends with status 1, the fatal line being the last line printed,     *)
(* whatever the other logging threads do                                       *)
C38_FatalShutdown ==
    /\ FatalPrinted => lg_logger.pc = "done"
    /\ lg_exit # "alive" =>
          /\ lg_exit = "exit_1"
          /\ lg_out # <<>>
          /\ lg_out[Len(lg_out)].fatal

(* the messages printed by the logger thread *)
PrintedIds == {lg_out[k].id : k \in {j \in 1..Len(lg_out) : ~lg_out[j].fatal}}

(* C39: every message that was in the ready-to-print channel when a FATAL     *)
(* record was logged has been printed by the logger thread when the fatal line *)
(* of that record is printed and the process ends                              *)
C39_NoLossBeforeFatal ==
    \A t \in Threads :
        lg_thr[t].pc = "exit" => lg_thr[t].rec.pre \subseteq PrintedIds

----------------------------------------------------------------------------
(* Specifications: each exercises one component, the others stay as constructed *)

(* MetaAllocator::new(1, 1), never used *)
IdleBuddy ==
    /\ min_order = 0
    /\ max_order = 0
    /\ free_lists = MetaNew(1, 1).free_lists
    /\ outstanding = EmptyBag

(* BitMap::new(0), never used *)
IdleBitMap ==
    /\ words = <<>>
    /\ bm_free_list = <<>>
    /\ bm_size = 0
    /\ bm_alloc = {}
    /\ bm_freed = <<>>
    /\ bm_op = "new"
    /\ bm_ret = NoneVal
    /\ bm_calls = 0

(* an arena of three orders above the smallest block *)
SplitArenas == {8}

InitSplit ==
    /\ \E size \in SplitArenas, min_size \in 1..MaxMinSize :
          LET m == MetaNew(size, min_size)
          IN  /\ min_order = m.min_order
              /\ max_order = m.max_order
              /\ free_lists = m.free_lists
    /\ outstanding = EmptyBag
    /\ IdleBitMap /\ InitHandleVars /\ InitSceneVars /\ IdleGl /\ InitLogVars

NextSplit == Alloc \/ Free

SpecSplit == InitSplit /\ [][NextSplit]_vars

(* the pools of OrderNodes active nodes that add_node calls can build and whose     *)
(* links form a forest: a link names a later slot, no slot is named twice     *)
ForestPools ==
    {ns \in [1..OrderNodes -> [sib : 0..(OrderNodes - 1), kid : 0..(OrderNodes - 1)]] :
        /\ \A i \in 1..OrderNodes :
              /\ (ns[i].sib = NONE \/ ns[i].sib > i - 1)
              /\ (ns[i].kid = NONE \/ ns[i].kid > i - 1)
              /\ (ns[i].sib = NONE \/ ns[i].sib # ns[i].kid)
        /\ \A i, j \in 1..OrderNodes : \A t \in 1..(OrderNodes - 1) :
              (t \in {ns[i].sib, ns[i].kid} /\ t \in {ns[j].sib, ns[j].kid}) => i = j}

InitOrder ==
    /\ \E ls \in ForestPools :
          nodes = [i \in 1..OrderNodes |-> [sib |-> ls[i].sib, kid |-> ls[i].kid,
                                    draw |-> BuildDraw(i - 1),
                                    local |-> BuildXform(i - 1), world |-> IDENTITY]]
    /\ active_nodes = <<>>
    /\ nodeq = <<>>
    /\ sc_pc = "idle"
    /\ sc_cur = [id |-> 0, xform |-> IDENTITY]
    /\ sc_written = {}
    /\ sc_edit = NoneVal
    /\ sc_edits = 0
    /\ IdleBuddy /\ IdleBitMap /\ InitHandleVars /\ IdleGl /\ InitLogVars

NextOrder == UpdateBegin \/ UpdatePop \/ UpdateVisit

SpecOrder == InitOrder /\ [][NextOrder]_vars

InitBuddy == InitBuddyVars /\ IdleBitMap /\ InitHandleVars /\ InitSceneVars /\ IdleGl /\ InitLogVars

NextBuddy == Alloc \/ Free

SpecBuddy == InitBuddy /\ [][NextBuddy]_vars

InitBitMap == InitBitMapVars /\ IdleBuddy /\ InitHandleVars /\ InitSceneVars /\ IdleGl /\ InitLogVars

NextBitMap == SetAny \/ Unset

SpecBitMap == InitBitMap /\ [][NextBitMap]_vars

InitHandles == InitHandleVars /\ IdleBuddy /\ IdleBitMap /\ InitSceneVars /\ IdleGl /\ InitLogVars

NextHandles == Track \/ Untrack \/ TrackPool \/ UntrackPool

SpecHandles == InitHandles /\ [][NextHandles]_vars

InitScene == InitSceneVars /\ IdleBuddy /\ IdleBitMap /\ InitHandleVars /\ IdleGl /\ InitLogVars

NextScene == AddNode \/ Deactivate \/ SetLocal \/ UpdateBegin \/ UpdatePop \/ UpdateVisit

SpecScene == InitScene /\ [][NextScene]_vars

(* a RawBuf of one of RawBufSizes; the other buffers are not used *)
InitBuf ==
    /\ \E size \in RawBufSizes : GlNew(1, size, 0, 0)
    /\ InitLogVars /\ IdlePass /\ IdleBuddy /\ IdleBitMap /\ InitHandleVars /\ InitSceneVars

NextBuf == RawAlloc \/ RawFree \/ RawMap \/ MapWrite \/ MapDrop

SpecBuf == InitBuf /\ [][NextBuf]_vars

(* a RawBuf, a TexBuf and a StoreBuf, at most one of the slot buffers with slots *)
InitExhaust ==
    /\ \E size \in RawBufSizes, tsize \in SlotCounts, ssize \in SlotCounts :
          /\ tsize = 0 \/ ssize = 0
          /\ GlNew(1, size, tsize, ssize)
    /\ InitLogVars /\ IdlePass /\ IdleBuddy /\ IdleBitMap /\ InitHandleVars /\ InitSceneVars

NextExhaust == RawAlloc \/ TexAlloc \/ StoreAlloc

SpecExhaust == InitExhaust /\ [][NextExhaust]_vars

(* Gl::new with a vertex and an index buffer of the capacities of the settings *)
InitMesh ==
    /\ \E vcap \in VtxCaps, icap \in IdxCaps :
          GlNew(vcap * VTX_SIZE, icap * IDX_SIZE, 0, 0)
    /\ InitLogVars /\ IdlePass /\ IdleBuddy /\ IdleBitMap /\ InitHandleVars /\ InitSceneVars

NextMesh == MeshAlloc

SpecMesh == InitMesh /\ [][NextMesh]_vars

(* Gl with three meshes allocated and no Pass created yet *)
InitPass ==
    /\ LET g == MeshAllocEach(RawBufNew(5 * VTX_SIZE), RawBufNew(16 * IDX_SIZE), <<>>,
                              PassMeshIdxs)
       IN  /\ vbo = g.vbo
           /\ ibo = g.ibo
           /\ meshes = g.meshes
    /\ mesh_idxs = PassMeshIdxs
    /\ dev = DevNew(16 * IDX_SIZE)
    /\ rb_map = NoMap
    /\ rb_live = {0, 1, 2}
    /\ tbo = SlotBufNew(0)
    /\ sbo = SlotBufNew(0)
    /\ gl_fatal = FALSE
    /\ gl_last = [op |-> "mesh_alloc", hnd |-> 2, len |-> NoneVal]
    /\ InitLogVars /\ IdlePass /\ IdleBuddy /\ IdleBitMap /\ InitHandleVars /\ InitSceneVars

NextPass == PassBegin \/ PassDraw \/ PassDrop

SpecPass == InitPass /\ [][NextPass]_vars

Init ==
    /\ InitBuddyVars /\ InitBitMapVars /\ InitHandleVars /\ InitSceneVars /\ IdlePass /\ InitLogVars
    /\ \E vcap \in VtxCaps, size \in RawBufSizes, tsize \in SlotCounts, ssize \in SlotCounts :
          GlNew(vcap * VTX_SIZE, size, tsize, ssize)

InitLog ==
    /\ InitLogVars
    /\ IdleBuddy /\ IdleBitMap /\ InitHandleVars /\ InitSceneVars /\ IdleGl

SpecLog == InitLog /\ [][NextLog]_vars

Next ==
    \/ NextBuddy \/ NextBitMap \/ NextHandles \/ NextScene
    \/ NextBuf \/ NextExhaust \/ NextMesh \/ NextPass \/ NextLog

Spec == Init /\ [][Next]_vars

====
